---- MODULE Spec2Model ----
(***************************************************************************)
(* ResumeManager (parser.py): the concurrent field-group extraction of one *)
(* resume.  process_file starts one thread per field group, every thread   *)
(* talks to the language-model service through query_model or              *)
(* extract_pydantic, and writes its keys of self.output.                   *)
(*                                                                         *)
(* Values.  A Python/JSON value is a tagged record: JNull, JStr(chars),    *)
(* JList(seq), JObj(function from keys to values).  A str is a sequence of *)
(* one-character strings, so that strip, split and lower are computed.     *)
(* The content of a service reply is Parsed(v), a text that json.loads     *)
(* turns into v, or Raw(chars), a text that is not valid JSON.             *)
(*                                                                         *)
(* Further parts: the document intake of the two surfaces (the command     *)
(* line of parser.py, parse_resume of app.py) and the Output Normalizer    *)
(* sanitize_output of utils.py with the module-level output_template.      *)
(* Under SpecFunctions extract_pydantic, extract_phone_numbers and         *)
(* parse_resume_manual are each called on their own on one input.          *)
(***************************************************************************)
EXTENDS Integers, Sequences, FiniteSets, TLC

VARIABLES
    resume,     \* self.resume: the text of the document
    output,     \* self.output: the Resume Record
    mainPc,     \* process_file: "start", "join", "returned"
    started,    \* number of field-group threads process_file has started
    joined,     \* number of field-group threads process_file has joined
    pc,         \* per field group: position of its thread
    tasks,      \* the drill-down threads of fallback_extract_work_experience
    stub,       \* TRUE: extract_pydantic is replaced by a stub that raises
    calls,      \* history: per field group, the replies its own thread received
    attempts,   \* history: per field group, Primary and Fallback attempts
    writers,    \* history: per top-level key, the field groups that wrote it
    written,    \* parser.py __main__: the record dumped to the output file
    template,   \* utils.output_template: the module-level default record
    arg,        \* sanitize_output: the record of the latest call
    result,     \* sanitize_output: what the latest call returned or raised
    sanitized,  \* number of sanitize_output calls made so far
    doc,        \* the document handed to a surface: its type and its text
    surface,    \* "cli" (parser.py __main__) or "app" (app.py parse_resume)
    appOut,     \* app.py: what parse_resume showed and returned
    call,       \* a function called on its own: its name and arguments
    ret         \* what that call returned, or that it raised

\* The state of the Output Normalizer, of the document intake, and what
\* process_file and its threads leave alone.
normVars == <<template, arg, result, sanitized>>
intakeVars == <<doc, surface, appOut>>
fnVars == <<call, ret>>
others == <<written, normVars, intakeVars, fnVars>>

vars == <<resume, output, mainPc, started, joined, pc, tasks, stub,
          calls, attempts, writers, written, template, arg, result,
          sanitized, doc, surface, appOut, call, ret>>

----------------------------------------------------------------------------
(* Bounds *)

\* Largest number of companies a company-discovery reply names.
MaxCompanies == 2

\* Largest number of sanitize_output calls in a run of the normalizer.
MaxSanitize == 3

\* Largest elapsed time, in seconds, a function measures for itself.
MaxSeconds == 1

----------------------------------------------------------------------------
(* Python values *)

JNull == [t |-> "null"]
JStr(s) == [t |-> "str", s |-> s]
JList(l) == [t |-> "list", l |-> l]
\* A dict is the sequence of its items in insertion order, keys distinct.
JObj(o) == [t |-> "obj", o |-> o]
KV(k, v) == [k |-> k, v |-> v]
\* A number, and a dict whose iteration order does not matter: the function
\* from its keys to its values.
JNum(n) == [t |-> "num", n |-> n]
Dict(d) == [t |-> "dict", d |-> d]

EmptyStr == <<>>
EmptyObj == <<>>

\* key in dict
Has(o, key) == \E i \in DOMAIN o : o[i].k = key

\* Python truthiness of a value (None, "", [] and {} are falsy).
Truthy(v) ==
    CASE v.t = "null" -> FALSE
      [] v.t = "str"  -> v.s # <<>>
      [] v.t = "list" -> v.l # <<>>
      [] v.t = "obj"  -> v.o # <<>>
      [] v.t = "num"  -> v.n # 0
      [] v.t = "dict" -> DOMAIN v.d # {}

\* dict.get(key, default)
Get(o, key, default) ==
    IF Has(o, key) THEN o[CHOOSE i \in DOMAIN o : o[i].k = key].v ELSE default

----------------------------------------------------------------------------
(* str methods *)

Whitespace == {" ", "\n", "\t"}

RECURSIVE LStrip(_)
LStrip(s) ==
    IF s # <<>> /\ Head(s) \in Whitespace THEN LStrip(Tail(s)) ELSE s

RECURSIVE RStrip(_)
RStrip(s) ==
    IF s # <<>> /\ s[Len(s)] \in Whitespace
    THEN RStrip(SubSeq(s, 1, Len(s) - 1))
    ELSE s

\* str.strip()
Strip(s) == RStrip(LStrip(s))

\* str.split(sep) for a one-character sep: the pieces between separators,
\* empty pieces included.
RECURSIVE SplitFrom(_, _, _)
SplitFrom(s, sep, cur) ==
    IF s = <<>> THEN <<cur>>
    ELSE IF Head(s) = sep THEN <<cur>> \o SplitFrom(Tail(s), sep, <<>>)
    ELSE SplitFrom(Tail(s), sep, Append(cur, Head(s)))

Split(s, sep) == SplitFrom(s, sep, <<>>)

Upper == <<"A", "B", "C", "D", "E", "F", "G", "H", "I", "J", "K", "L", "M",
           "N", "O", "P", "Q", "R", "S", "T", "U", "V", "W", "X", "Y", "Z">>
LowerLetters == <<"a", "b", "c", "d", "e", "f", "g", "h", "i", "j", "k", "l", "m",
           "n", "o", "p", "q", "r", "s", "t", "u", "v", "w", "x", "y", "z">>

LowerChar(c) ==
    IF \E i \in DOMAIN Upper : Upper[i] = c
    THEN LowerLetters[CHOOSE i \in DOMAIN Upper : Upper[i] = c]
    ELSE c

\* str.lower()
Lower(s) == [i \in 1..Len(s) |-> LowerChar(s[i])]

UpperChar(c) ==
    IF \E i \in DOMAIN LowerLetters : LowerLetters[i] = c
    THEN Upper[CHOOSE i \in DOMAIN LowerLetters : LowerLetters[i] = c]
    ELSE c

IsLetter(c) ==
    \E i \in DOMAIN LowerLetters : LowerLetters[i] = c \/ Upper[i] = c

\* sub in s
Contains(s, sub) ==
    \E i \in 0..(Len(s) - Len(sub)) : SubSeq(s, i + 1, i + Len(sub)) = sub

----------------------------------------------------------------------------
(* The language-model service and its two clients *)

\* What one chat.completions.create call does: it raises (network error,
\* timeout, non-2xx), or returns a message content.
Error == [kind |-> "error"]
Ok(c) == [kind |-> "ok", content |-> c]

\* A content that json.loads parses into v / a content that is not JSON.
Parsed(v) == [t |-> "json", j |-> v]
Raw(s) == [t |-> "text", s |-> s]

\* query_model: the content of the reply; on any exception of the call the
\* string "{}" in JSON mode and "" otherwise.  It never raises.
QueryModel(outcome, json_mode) ==
    IF outcome.kind = "error"
    THEN IF json_mode THEN Parsed(JObj(EmptyObj)) ELSE Raw(EmptyStr)
    ELSE outcome.content

\* json.loads: raises JSONDecodeError on a text that is not JSON.
JsonLoads(content) ==
    IF content.t = "json"
    THEN [raised |-> FALSE, val |-> content.j]
    ELSE [raised |-> TRUE, val |-> JNull]

\* A pydantic model: its fields in declaration order; a field annotated
\* Optional[str] is not required and defaults to None.
WorkExperience ==
    << [name |-> "company_name", optional |-> FALSE],
       [name |-> "job_title",    optional |-> FALSE],
       [name |-> "start_date",   optional |-> FALSE],
       [name |-> "end_date",     optional |-> FALSE],
       [name |-> "description",  optional |-> TRUE] >>

Education ==
    << [name |-> "qualification", optional |-> FALSE],
       [name |-> "establishment", optional |-> TRUE],
       [name |-> "country",       optional |-> TRUE],
       [name |-> "year",          optional |-> TRUE] >>

\* target_schema(**item) succeeds: item is a mapping, every required field
\* is present with a str, every optional field is absent, None or a str.
Validates(schema, item) ==
    /\ item.t = "obj"
    /\ \A i \in DOMAIN schema :
          IF schema[i].optional
          THEN Get(item.o, schema[i].name, JNull).t \in {"null", "str"}
          ELSE Has(item.o, schema[i].name)
               /\ Get(item.o, schema[i].name, JNull).t = "str"

\* json.loads(x.json()) of the validated model object: every field of the
\* schema, in declaration order, an absent optional one as None.
ModelDict(schema, item) ==
    JObj([i \in DOMAIN schema |->
            KV(schema[i].name, Get(item.o, schema[i].name, JNull))])

\* Mutant: one item that fails validation aborts the batch.
ValidItemsAllOrNone(schema, items) ==
    IF \A i \in DOMAIN items : Validates(schema, items[i])
    THEN [i \in DOMAIN items |-> ModelDict(schema, items[i])]
    ELSE <<>>

\* The items of one reply list that validate, in order (lines 112-119).
RECURSIVE ValidItems(_, _)
ValidItems(schema, items) ==
    IF items = <<>> THEN <<>>
    ELSE (IF Validates(schema, Head(items))
          THEN <<ModelDict(schema, Head(items))>> ELSE <<>>)
         \o ValidItems(schema, Tail(items))

\* The else branch (lines 122-130): the items of every list-typed top-level
\* value, in key order.
RECURSIVE ScanLists(_, _)
ScanLists(schema, o) ==
    IF o = <<>> THEN <<>>
    ELSE (IF Head(o).v.t = "list" THEN ValidItems(schema, Head(o).v.l) ELSE <<>>)
         \o ScanLists(schema, Tail(o))

\* extract_pydantic: the validated items.  Every exception of the call, of
\* json.loads or of the walk over a reply that is not an object is caught
\* at line 136 and gives the empty list.
ExtractPydantic(schema, outcome) ==
    IF outcome.kind = "error" THEN <<>>
    ELSE LET parsed == JsonLoads(outcome.content) IN
         IF parsed.raised THEN <<>>
         ELSE IF parsed.val.t # "obj" THEN <<>>
         ELSE IF Has(parsed.val.o, "data") /\ Get(parsed.val.o, "data", JNull).t = "list"
              THEN ValidItems(schema, Get(parsed.val.o, "data", JNull).l)
              ELSE ScanLists(schema, parsed.val.o)

\* Whether extract_pydantic raises to its caller: as coded never (the
\* try at line 95 covers the call and the parsing); only the stub does.
ExtractPydanticRaises(outcome) == stub

----------------------------------------------------------------------------
(* Contact-detail extractors (utils.py) *)

\* The text of a document is the sequence of its words, a word a sequence
\* of characters; a URL scheme-and-host prefix is kept as one unit.
IsEmail(word) == Contains(word, <<"@">>)
GithubPrefix == <<"https://github.com/">>
LinkedinPrefix == <<"https://www.linkedin.com/in/">>
StartsWith(word, prefix) ==
    Len(word) > Len(prefix) /\ SubSeq(word, 1, Len(prefix)) = prefix

\* The loop "if key not in seen: seen.add(key); unique.append(x)", keys[i]
\* being the key of items[i]: seen holds the keys of all earlier items, so
\* an item is appended exactly when no earlier item has its key.
Unique(items, keys) ==
    LET kept == {i \in DOMAIN items : \A j \in 1..(i - 1) : keys[j] # keys[i]}
    IN [n \in 1..Cardinality(kept) |->
           items[CHOOSE i \in kept : Cardinality({j \in kept : j <= i}) = n]]

IsGithub(word) == StartsWith(word, GithubPrefix)
IsLinkedin(word) == StartsWith(word, LinkedinPrefix)

\* re.findall is SelectSeq: the words that match, in text order.
extract_emails(content) ==
    LET emails == SelectSeq(content, IsEmail)
    IN Unique(emails, [i \in DOMAIN emails |-> Lower(emails[i])])

extract_github_and_linkedin_urls(text) ==
    LET all_urls == SelectSeq(text, IsGithub) \o SelectSeq(text, IsLinkedin)
    IN Unique(all_urls, all_urls)

\* The documents of the model.
Resumes ==
    { << <<"J", "a", "n", "e">>,
         <<"J", "@", "x", ".", "i", "o">>,
         <<"j", "@", "x", ".", "i", "o">>,
         <<"https://github.com/", "j", "d">> >> }

\* The texts get_resume_content returns for the documents of the model: a
\* resume, or "" for a document without a text layer.
Texts == Resumes \cup {<<>>}

\* The two extractors on the documents of the model, as tables.
Emails == [text \in Texts |-> extract_emails(text)]
ProfileUrls == [text \in Texts |-> extract_github_and_linkedin_urls(text)]

\* A list of str as a Python value.
StrList(l) == JList([i \in DOMAIN l |-> JStr(l[i])])

----------------------------------------------------------------------------
(* The Resume Record *)

Groups == {"work", "basic", "education", "skills"}

\* process_file's targets, in the order their threads are started and joined.
Targets == <<"work", "basic", "education", "skills">>

output_template ==
    [ candidate_name |-> JStr(EmptyStr),
      contact_info |-> [ location |-> JStr(EmptyStr),
                         phone_number |-> JStr(EmptyStr),
                         email_address |-> JList(<<>>),
                         personal_urls |-> JList(<<>>) ],
      job_title |-> JStr(EmptyStr),
      bio |-> JStr(EmptyStr),
      work_output |-> JList(<<>>),
      skills |-> JList(<<>>),
      education |-> JList(<<>>),
      professional_development |-> JList(<<>>),
      other_info |-> JList(<<>>) ]

TopKeys == DOMAIN output_template

----------------------------------------------------------------------------
(* What each field group does with a reply *)

\* Mutant: an empty object is taken for a failure too.
PrimaryRaisesOnEmpty(parsed) ==
    parsed.raised \/ parsed.val.t # "obj" \/ parsed.val.o = <<>>

\* The try block of extract_basic_info / extract_skills raises: json.loads
\* on a text that is not JSON, or .get on a value that is not a dict.
PrimaryRaises(parsed) == parsed.raised \/ parsed.val.t # "obj"

\* extract_basic_info, lines 181-189.
WriteBasicInfo(out, o) ==
    LET c1 == IF Has(o, "location")
              THEN [out.contact_info EXCEPT !.location = Get(o, "location", JNull)]
              ELSE out.contact_info
        c2 == IF Has(o, "phone")
              THEN [c1 EXCEPT !.phone_number = Get(o, "phone", JNull)]
              ELSE c1
    IN [out EXCEPT !.candidate_name = Get(o, "name", JStr(EmptyStr)),
                   !.job_title = Get(o, "job_title", JStr(EmptyStr)),
                   !.bio = Get(o, "bio", JStr(EmptyStr)),
                   !.contact_info = c2]

\* Mutant: lines 199-200 are missing.
WriteContactsNever(out, text) == out

\* extract_basic_info, lines 199-200.
WriteContacts(out, text) ==
    [out EXCEPT !.contact_info =
        [@ EXCEPT !.email_address = StrList(Emails[text]),
                  !.personal_urls = StrList(ProfileUrls[text])]]

\* fallback_basic_info: "x.strip() if x else ''" of a text-mode reply.
FallbackAnswer(reply) ==
    LET x == QueryModel(reply, FALSE).s
    IN JStr(IF x # <<>> THEN Strip(x) ELSE EmptyStr)

\* extract_skills, lines 227-229.
WriteSkills(out, o) ==
    [out EXCEPT !.skills = Get(o, "skills", JList(<<>>)),
                !.professional_development =
                    Get(o, "professional_development", JList(<<>>)),
                !.other_info = Get(o, "other", JList(<<>>))]

\* Mutant: the pieces are kept as split, untrimmed.
CommaListUntrimmed(text) ==
    LET NonEmpty(x) == x # <<>>
    IN SelectSeq(Split(text, ","), NonEmpty)

\* [skill.strip() for skill in output.split(',') if skill.strip()]
CommaList(text) ==
    LET pieces == Split(text, ",")
        stripped == [i \in DOMAIN pieces |-> Strip(pieces[i])]
        NonEmpty(x) == x # <<>>
    IN SelectSeq(stripped, NonEmpty)

\* Mutant: the fallback builds the record anew around its skills.
WriteFallbackSkillsAnew(out, reply) ==
    [output_template EXCEPT
        !.skills = StrList(CommaList(QueryModel(reply, FALSE).s))]

\* extract_skills, lines 233-241.
WriteFallbackSkills(out, reply) ==
    LET text == QueryModel(reply, FALSE).s
    IN IF text # <<>> THEN [out EXCEPT !.skills = StrList(CommaList(text))]
       ELSE out

\* Mutant: the fallback text is stored under the skills key.
WriteFallbackEducationWrongKey(out, reply) ==
    [out EXCEPT !.skills = JStr(QueryModel(reply, FALSE).s)]

\* extract_education, line 250 / line 260.
WriteEducation(out, items) == [out EXCEPT !.education = JList(items)]
WriteFallbackEducation(out, reply) ==
    [out EXCEPT !.education = JStr(QueryModel(reply, FALSE).s)]

\* extract_work_experience, line 268.
WriteWork(out, items) == [out EXCEPT !.work_output = JList(items)]

\* fallback_extract_work_experience, lines 280-290: the (company, role) of
\* one line, or no thread for the line.
CompanyLine(line) ==
    LET entry == Split(line, ",")
        company_name == Strip(entry[1])
        role == IF Len(entry) > 1 THEN Strip(entry[2]) ELSE EmptyStr
    IN IF Contains(Lower(line), <<"a", "n", "s", "w", "e", "r">>)
          \/ Strip(line) = <<>>
          \/ company_name = <<>>
       THEN <<>>
       ELSE << [company |-> company_name, role |-> role] >>

RECURSIVE CompanyLines(_)
CompanyLines(lines) ==
    IF lines = <<>> THEN <<>>
    ELSE CompanyLine(Head(lines)) \o CompanyLines(Tail(lines))

\* The threads fallback_extract_work_experience starts for a reply.
DiscoveredCompanies(reply) ==
    CompanyLines(Split(QueryModel(reply, FALSE).s, "\n"))

\* Mutant: the list is assigned instead of appended to.
AppendWorkOverwrite(out, entry) == [out EXCEPT !.work_output = JList(<<entry>>)]

\* get_intermediary_work_experience, line 308: list.append, one atomic
\* operation of the interpreter.
AppendWork(out, entry) ==
    [out EXCEPT !.work_output = JList(Append(@.l, entry))]

\* get_intermediary_work_experience reaches its append at line 308: the
\* json.loads of line 304 does not raise.
Appends(reply) == ~JsonLoads(QueryModel(reply, TRUE)).raised

\* get_intermediary_work_experience: the record after the thread has run.
DrillDown(out, reply) ==
    IF Appends(reply)
    THEN AppendWork(out, JsonLoads(QueryModel(reply, TRUE)).val)
    ELSE out

----------------------------------------------------------------------------
(* The inputs: documents and service replies *)

NotJson == Raw(<<"n", "o", "t", " ", "j", "s", "o", "n">>)

BasicInfoFull ==
    JObj(<< KV("name", JStr(<<"J", "a", "n", "e">>)),
            KV("job_title", JStr(<<"d", "e", "v">>)),
            KV("bio", JStr(<<"b", "i", "o">>)),
            KV("location", JStr(<<"N", "Y">>)),
            KV("phone", JStr(<<"5", "5", "5">>)) >>)

\* Replies to the JSON-mode basic-info prompt.
BasicInfoReplies ==
    { Error, Ok(NotJson), Ok(Parsed(JList(<<>>))), Ok(Parsed(JObj(EmptyObj))),
      Ok(Parsed(BasicInfoFull)) }

\* Replies to a text-mode fallback_basic_info prompt.
AnswerReplies == { Error, Ok(Raw(<<" ", "J", "o", "\n">>)) }

SkillsFull ==
    JObj(<< KV("skills", StrList(<< <<"G", "o">>, <<"S", "Q", "L">> >>)),
            KV("professional_development", StrList(<< <<"P", "M", "P">> >>)),
            KV("other", JStr(<<"c", "h", "e", "s", "s">>)) >>)

\* Replies to the JSON-mode skills prompt.
SkillsReplies ==
    { Error, Ok(NotJson), Ok(Parsed(JObj(EmptyObj))), Ok(Parsed(SkillsFull)) }

\* Replies to the text-mode fallback skills prompt.
FallbackSkillsReplies ==
    { Error, Ok(Raw(<<"G", "o", ",", " ", "S", "Q", "L", ",", " ", ",", "C">>)) }

EducationItem ==
    JObj(<< KV("qualification", JStr(<<"B", "S", "c">>)),
            KV("establishment", JStr(<<"M", "I", "T">>)) >>)
EducationItemNoQualification ==
    JObj(<< KV("establishment", JStr(<<"M", "I", "T">>)) >>)

\* Replies to the extract_pydantic(Education) prompt.
EducationReplies ==
    { Error, Ok(NotJson), Ok(Parsed(JList(<<EducationItem>>))),
      Ok(Parsed(JObj(<< KV("data", JList(<<>>)) >>))),
      Ok(Parsed(JObj(<< KV("data", JList(<<EducationItemNoQualification,
                                            EducationItem>>)) >>))) }

\* Replies to the text-mode fallback education prompt.
FallbackEducationReplies ==
    { Error, Ok(Raw(<<"B", "S", "c", ",", " ", "M", "I", "T">>)) }

WorkItem(company) ==
    JObj(<< KV("company_name", JStr(company)),
            KV("job_title", JStr(<<"d", "e", "v">>)),
            KV("start_date", JStr(<<"N", "o", "n", "e">>)),
            KV("end_date", JStr(<<"N", "o", "n", "e">>)) >>)
WorkItemNoCompany ==
    JObj(<< KV("job_title", JStr(<<"d", "e", "v">>)),
            KV("start_date", JStr(<<"N", "o", "n", "e">>)),
            KV("end_date", JStr(<<"N", "o", "n", "e">>)) >>)

\* Replies to the extract_pydantic(WorkExperience) prompt.
WorkReplies ==
    { Error, Ok(NotJson),
      Ok(Parsed(JObj(<< KV("data", JList(<<>>)) >>))),
      Ok(Parsed(JObj(<< KV("data", JList(<<WorkItemNoCompany,
                                            WorkItem(<<"A">>)>>)) >>))),
      Ok(Parsed(JObj(<< KV("data", JList(<<WorkItem(EmptyStr)>>)) >>))) }

\* The answer lines "X, dev" of the companies named in a discovery reply.
CompanyNames == <<"A", "B", "C", "D">>
RECURSIVE CompanyText(_)
CompanyText(n) ==
    IF n = 0 THEN <<>>
    ELSE (IF n = 1 THEN <<>> ELSE CompanyText(n - 1) \o <<"\n">>)
         \o <<CompanyNames[n], ",", " ", "d", "e", "v">>

\* Replies to the text-mode company-discovery prompt: no reply, the first
\* n companies one per line, and a reply with a heading line, a line with
\* a blank company name and a line without a role.
CompaniesReplies ==
    { Error }
    \cup { Ok(Raw(CompanyText(n))) : n \in 1..MaxCompanies }
    \cup { Ok(Raw(<<"A", "N", "S", "W", "E", "R", ":", "\n",
                    " ", ",", "d", "e", "v", "\n", "\n", "A">>)) }

\* Replies to the JSON-mode drill-down prompt for a company.
DrillDownReplies(company) ==
    { Error, Ok(NotJson), Ok(Parsed(WorkItem(company))) }

----------------------------------------------------------------------------
(* History bookkeeping *)

\* The top-level keys a step assigns or mutates: the step's statements are
\* run on a record of marked values, and a key counts as written when its
\* value is no longer the marked one.
Marked ==
    [k \in TopKeys |->
        IF k = "contact_info"
        THEN [c \in DOMAIN output_template.contact_info |-> [t |-> "marked"]]
        ELSE IF k = "work_output" THEN JList(<<[t |-> "marked"]>>)
        ELSE [t |-> "marked"]]

Assigned(after) == {k \in TopKeys : after[k] # Marked[k]}

Wrote(w, g, after) ==
    LET keys == Assigned(after)
    IN [k \in DOMAIN w |-> IF k \in keys THEN w[k] \cup {g} ELSE w[k]]

Attempt(a, g, phase) == [a EXCEPT ![g][phase] = @ + 1]
Called(c, g, reply) == [c EXCEPT ![g] = Append(@, reply)]

\* The marker calls records when the stub of extract_pydantic raised.
Raised == [kind |-> "raised"]

----------------------------------------------------------------------------
(* process_file *)

\* No record has been dumped, sanitize_output has not been called, and the
\* text comes from a document that has been read already.
Nothing == [t |-> "nothing"]
NothingWritten == written = Nothing
NormalizerIdle ==
    /\ template = output_template
    /\ arg = Nothing
    /\ result = Nothing
    /\ sanitized = 0
IntakeDone ==
    /\ doc = Nothing
    /\ surface = "cli"
    /\ appOut = Nothing
NoCall ==
    /\ call = Nothing
    /\ ret = Nothing

Init ==
    /\ NothingWritten /\ NormalizerIdle /\ IntakeDone /\ NoCall
    /\ resume \in Resumes
    /\ output = output_template
    /\ mainPc = "start"
    /\ started = 0
    /\ joined = 0
    /\ pc = [g \in Groups |-> "idle"]
    /\ tasks = <<>>
    /\ stub = FALSE
    /\ calls = [g \in Groups |-> <<>>]
    /\ attempts = [g \in Groups |-> [primary |-> 0, fallback |-> 0]]
    /\ writers = [k \in TopKeys |-> {}]

\* The threads process_file has to start before it joins.
ThreadCount == Len(Targets)

\* Lines 48-56: one thread.start().
StartThread ==
    /\ mainPc = "start"
    /\ started < ThreadCount
    /\ pc' = [pc EXCEPT ![Targets[started + 1]] = "primary"]
    /\ started' = started + 1
    /\ mainPc' = IF started + 1 = ThreadCount THEN "join" ELSE "start"
    /\ UNCHANGED <<others, resume, output, joined, tasks, stub, calls, attempts, writers>>

\* Lines 58-59: one thread.join(), which returns once the thread has ended.
JoinThread ==
    /\ mainPc = "join"
    /\ joined < ThreadCount
    /\ pc[Targets[joined + 1]] = "done"
    /\ joined' = joined + 1
    /\ mainPc' = IF joined + 1 = ThreadCount THEN "returned" ELSE "join"
    /\ UNCHANGED <<others, resume, output, started, pc, tasks, stub, calls, attempts, writers>>

----------------------------------------------------------------------------
(* basic-info *)

\* Mutant: a failed Primary attempt is tried again.
AfterPrimaryRetry(raises) == IF raises THEN "primary" ELSE "done"

\* Where a field group goes after the try block of its Primary attempt:
\* into its except block, or to the end of the method.
AfterPrimary(raises) == IF raises THEN "fallback" ELSE "done"

\* extract_basic_info when its try block does not raise.
BasicInfoDone(out, o, text) == WriteContacts(WriteBasicInfo(out, o), text)

\* fallback_basic_info, lines 206-208.
FallbackName(out, reply) == [out EXCEPT !.candidate_name = FallbackAnswer(reply)]

\* fallback_basic_info, lines 211-213, then lines 199-200.
FallbackTitle(out, reply, text) ==
    WriteContacts([out EXCEPT !.job_title = FallbackAnswer(reply)], text)

ExtractBasicInfo ==
    /\ pc["basic"] = "primary"
    /\ \E reply \in BasicInfoReplies :
         LET parsed == JsonLoads(QueryModel(reply, TRUE))
             raises == PrimaryRaises(parsed)
         IN /\ pc' = [pc EXCEPT !["basic"] = AfterPrimary(raises)]
            /\ output' = IF raises THEN output
                          ELSE BasicInfoDone(output, parsed.val.o, resume)
            /\ writers' = IF raises THEN writers
                           ELSE Wrote(writers, "basic",
                                      BasicInfoDone(Marked, parsed.val.o, resume))
            /\ calls' = Called(calls, "basic", reply)
            /\ attempts' = Attempt(attempts, "basic", "primary")
    /\ UNCHANGED <<others, resume, mainPc, started, joined, tasks, stub>>

FallbackBasicName ==
    /\ pc["basic"] = "fallback"
    /\ \E reply \in AnswerReplies :
         /\ output' = FallbackName(output, reply)
         /\ writers' = Wrote(writers, "basic", FallbackName(Marked, reply))
         /\ calls' = Called(calls, "basic", reply)
    /\ pc' = [pc EXCEPT !["basic"] = "fallback_title"]
    /\ attempts' = Attempt(attempts, "basic", "fallback")
    /\ UNCHANGED <<others, resume, mainPc, started, joined, tasks, stub>>

FallbackBasicTitle ==
    /\ pc["basic"] = "fallback_title"
    /\ \E reply \in AnswerReplies :
         /\ output' = FallbackTitle(output, reply, resume)
         /\ writers' = Wrote(writers, "basic", FallbackTitle(Marked, reply, resume))
         /\ calls' = Called(calls, "basic", reply)
    /\ pc' = [pc EXCEPT !["basic"] = "done"]
    /\ UNCHANGED <<others, resume, mainPc, started, joined, tasks, stub, attempts>>

----------------------------------------------------------------------------
(* skills *)

ExtractSkills ==
    /\ pc["skills"] = "primary"
    /\ \E reply \in SkillsReplies :
         LET parsed == JsonLoads(QueryModel(reply, TRUE))
             raises == PrimaryRaises(parsed)
         IN /\ pc' = [pc EXCEPT !["skills"] = AfterPrimary(raises)]
            /\ output' = IF raises THEN output
                          ELSE WriteSkills(output, parsed.val.o)
            /\ writers' = IF raises THEN writers
                           ELSE Wrote(writers, "skills", WriteSkills(Marked, parsed.val.o))
            /\ calls' = Called(calls, "skills", reply)
            /\ attempts' = Attempt(attempts, "skills", "primary")
    /\ UNCHANGED <<others, resume, mainPc, started, joined, tasks, stub>>

\* The except block of extract_skills.
FallbackSkills ==
    /\ pc["skills"] = "fallback"
    /\ \E reply \in FallbackSkillsReplies :
         /\ output' = WriteFallbackSkills(output, reply)
         /\ writers' = Wrote(writers, "skills", WriteFallbackSkills(Marked, reply))
         /\ calls' = Called(calls, "skills", reply)
    /\ pc' = [pc EXCEPT !["skills"] = "done"]
    /\ attempts' = Attempt(attempts, "skills", "fallback")
    /\ UNCHANGED <<others, resume, mainPc, started, joined, tasks, stub>>

----------------------------------------------------------------------------
(* education *)

ExtractEducation ==
    /\ pc["education"] = "primary"
    /\ \E reply \in EducationReplies :
         LET raises == ExtractPydanticRaises(reply)
         IN /\ pc' = [pc EXCEPT !["education"] = AfterPrimary(raises)]
            /\ output' = IF raises THEN output
                          ELSE WriteEducation(output, ExtractPydantic(Education, reply))
            /\ writers' = IF raises THEN writers
                           ELSE Wrote(writers, "education",
                                      WriteEducation(Marked, ExtractPydantic(Education, reply)))
            /\ calls' = Called(calls, "education", IF stub THEN Raised ELSE reply)
            /\ attempts' = Attempt(attempts, "education", "primary")
    /\ UNCHANGED <<others, resume, mainPc, started, joined, tasks, stub>>

\* The except block of extract_education.
FallbackEducation ==
    /\ pc["education"] = "fallback"
    /\ \E reply \in FallbackEducationReplies :
         /\ output' = WriteFallbackEducation(output, reply)
         /\ writers' = Wrote(writers, "education", WriteFallbackEducation(Marked, reply))
         /\ calls' = Called(calls, "education", reply)
    /\ pc' = [pc EXCEPT !["education"] = "done"]
    /\ attempts' = Attempt(attempts, "education", "fallback")
    /\ UNCHANGED <<others, resume, mainPc, started, joined, tasks, stub>>

----------------------------------------------------------------------------
(* work experience *)

ExtractWorkExperience ==
    /\ pc["work"] = "primary"
    /\ \E reply \in WorkReplies :
         LET raises == ExtractPydanticRaises(reply)
         IN /\ pc' = [pc EXCEPT !["work"] = AfterPrimary(raises)]
            /\ output' = IF raises THEN output
                          ELSE WriteWork(output, ExtractPydantic(WorkExperience, reply))
            /\ writers' = IF raises THEN writers
                           ELSE Wrote(writers, "work",
                                      WriteWork(Marked, ExtractPydantic(WorkExperience, reply)))
            /\ calls' = Called(calls, "work", IF stub THEN Raised ELSE reply)
            /\ attempts' = Attempt(attempts, "work", "primary")
    /\ UNCHANGED <<others, resume, mainPc, started, joined, tasks, stub>>

\* A drill-down thread as started at lines 292-294.
NewTask(c) ==
    [company |-> c.company, role |-> c.role, pc |-> "run", reply |-> Raised,
     appended |-> FALSE]

\* fallback_extract_work_experience up to its joins: the discovery call and
\* one started thread per company line.
FallbackExtractWorkExperience ==
    /\ pc["work"] = "fallback"
    /\ \E reply \in CompaniesReplies :
         LET found == DiscoveredCompanies(reply)
         IN /\ tasks' = [i \in DOMAIN found |-> NewTask(found[i])]
            /\ calls' = Called(calls, "work", reply)
    /\ pc' = [pc EXCEPT !["work"] = "drill"]
    /\ attempts' = Attempt(attempts, "work", "fallback")
    /\ UNCHANGED <<others, resume, output, mainPc, started, joined, stub, writers>>

\* One drill-down thread: get_intermediary_work_experience.
GetIntermediaryWorkExperience(i) ==
    /\ tasks[i].pc = "run"
    /\ \E reply \in DrillDownReplies(tasks[i].company) :
         /\ output' = DrillDown(output, reply)
         /\ tasks' = [tasks EXCEPT ![i].pc = "done", ![i].reply = reply,
                                   ![i].appended = Appends(reply)]
         /\ writers' = Wrote(writers, "work", DrillDown(Marked, reply))
    /\ UNCHANGED <<others, resume, mainPc, started, joined, pc, stub, calls,
                   attempts>>

\* Mutant: the join loop is missing.
UnjoinedNone == {}

\* The threads fallback_extract_work_experience still has to wait for at
\* lines 296-297.
Unjoined == {i \in DOMAIN tasks : tasks[i].pc # "done"}

\* Lines 296-297: the joins have returned and extract_work_experience ends.
JoinDrillDowns ==
    /\ pc["work"] = "drill"
    /\ Unjoined = {}
    /\ pc' = [pc EXCEPT !["work"] = "done"]
    /\ UNCHANGED <<others, resume, output, mainPc, started, joined, tasks, stub, calls,
                   attempts, writers>>

----------------------------------------------------------------------------
(* Document intake: get_resume_content (parser.py) and the deterministic   *)
(* parser of the interactive surface (app.py).  A document is its file     *)
(* extension, its declared content type and the lines of its text; a line  *)
(* of the documents of the model is one word.                              *)

Pdf == "application/pdf"
Docx == "application/vnd.openxmlformats-officedocument.wordprocessingml.document"
Plain == "text/plain"
Zip == "application/zip"

\* A line str.strip() leaves nothing of.
Blank(line) == \A i \in DOMAIN line : line[i] \in Whitespace

\* str.strip() of a text: the lines from the first to the last that is not
\* blank.
StripText(lines) ==
    LET kept == {i \in DOMAIN lines : ~Blank(lines[i])}
    IN IF kept = {} THEN <<>>
       ELSE SubSeq(lines, CHOOSE i \in kept : \A j \in kept : i <= j,
                          CHOOSE i \in kept : \A j \in kept : j <= i)

\* The documents of the model: a PDF with a text layer, a scanned PDF whose
\* only page gives a blank, a text file and an archive.
Documents ==
    { [ext |-> ".pdf", type |-> Pdf, text |-> r] : r \in Resumes }
    \cup { [ext |-> ".pdf", type |-> Pdf, text |-> << <<" ">> >>] }
    \cup { [ext |-> ".txt", type |-> Plain, text |-> r] : r \in Resumes }
    \cup { [ext |-> ".zip", type |-> Zip, text |-> r] : r \in Resumes }

\* Mutant: every extension is read as a PDF.
AnyExtension(ext) == TRUE

\* get_resume_content, lines 325 and 332: the extensions it reads.
SupportedExtension(ext) == ext \in {".pdf", ".docx", ".doc"}

\* parse_resume, lines 227-231: the content types it reads.
SupportedType(type) == type \in {Pdf, Docx, Plain}

\* A word with a URL prefix spelled out in characters.
Spelled(word) ==
    LET Chars(c) == IF c = "https://github.com/"
                    THEN <<"h", "t", "t", "p", "s", ":", "/", "/", "g", "i", "t", "h", "u", "b", ".", "c", "o", "m", "/">>
                    ELSE IF c = "https://www.linkedin.com/in/"
                    THEN <<"h", "t", "t", "p", "s", ":", "/", "/", "w", "w", "w", ".", "l", "i", "n", "k", "e", "d", "i", "n", ".", "c", "o", "m", "/", "i", "n", "/">>
                    ELSE <<c>>
        F[i \in 0..Len(word)] == IF i = 0 THEN <<>> ELSE F[i - 1] \o Chars(word[i])
    IN F[Len(word)]

\* app.py extract_email: re.findall, every match in text order.
extract_email(text) == SelectSeq(text, IsEmail)

Digits == {"0", "1", "2", "3", "4", "5", "6", "7", "8", "9"}

\* app.py extract_phone: the words that are ten digits or more.
extract_phone(text) ==
    LET IsPhone(word) == Len(word) >= 10 /\ \A i \in DOMAIN word : word[i] \in Digits
    IN SelectSeq(text, IsPhone)

\* The words of a line: line.split().
Words(line) ==
    LET NonEmpty(x) == x # <<>>
    IN SelectSeq(Split(Strip(line), " "), NonEmpty)

\* str.istitle(): the word has a letter, an upper-case letter follows no
\* letter and a lower-case letter follows a letter.
IsTitle(word) ==
    /\ \E i \in DOMAIN word : IsLetter(word[i])
    /\ \A i \in DOMAIN word :
          IsLetter(word[i])
          => ((word[i] = UpperChar(word[i])) <=> (i = 1 \/ ~IsLetter(word[i - 1])))

NotNameWords ==
    { <<"r", "e", "s", "u", "m", "e">>, <<"c", "v">>,
      <<"c", "u", "r", "r", "i", "c", "u", "l", "u", "m">>, <<"v", "i", "t", "a", "e">>, <<"p", "h", "o", "n", "e">>,
      <<"e", "m", "a", "i", "l">>, <<"l", "i", "n", "k", "e", "d", "i", "n">> }

\* app.py extract_name: the first of the first five lines that names none
\* of NotNameWords and is two to four title-case words.
extract_name(text) ==
    LET IsName(line) ==
            /\ Strip(line) # <<>>
            /\ \A w \in NotNameWords : ~Contains(Lower(Spelled(line)), w)
            /\ Len(Words(line)) \in 2..4
            /\ \A i \in DOMAIN Words(line) :
                   Len(Words(line)[i]) > 1 => IsTitle(Words(line)[i])
        names == SelectSeq(SubSeq(text, 1, IF Len(text) < 5 THEN Len(text) ELSE 5), IsName)
    IN IF names = <<>> THEN EmptyStr ELSE Strip(names[1])

common_skills ==
  {
    <<"p", "y", "t", "h", "o", "n">>, <<"j", "a", "v", "a">>,
    <<"j", "a", "v", "a", "s", "c", "r", "i", "p", "t">>,
    <<"h", "t", "m", "l">>, <<"c", "s", "s">>, <<"r", "e", "a", "c", "t">>,
    <<"a", "n", "g", "u", "l", "a", "r">>, <<"v", "u", "e">>,
    <<"n", "o", "d", "e", ".", "j", "s">>,
    <<"e", "x", "p", "r", "e", "s", "s">>,
    <<"d", "j", "a", "n", "g", "o">>, <<"f", "l", "a", "s", "k">>,
    <<"f", "a", "s", "t", "a", "p", "i">>, <<"s", "q", "l">>,
    <<"n", "o", "s", "q", "l">>, <<"m", "o", "n", "g", "o", "d", "b">>,
    <<"p", "o", "s", "t", "g", "r", "e", "s", "q", "l">>,
    <<"m", "y", "s", "q", "l">>, <<"a", "w", "s">>,
    <<"a", "z", "u", "r", "e">>, <<"g", "c", "p">>,
    <<"d", "o", "c", "k", "e", "r">>,
    <<"k", "u", "b", "e", "r", "n", "e", "t", "e", "s">>,
    <<"j", "e", "n", "k", "i", "n", "s">>, <<"g", "i", "t">>,
    <<"g", "i", "t", "h", "u", "b">>, <<"g", "i", "t", "l", "a", "b">>,
    <<"c", "i", "/", "c", "d">>,
    <<"m", "a", "c", "h", "i", "n", "e", " ", "l", "e", "a", "r", "n", "i", "n", "g">>,
    <<"a", "i">>,
    <<"d", "a", "t", "a", " ", "a", "n", "a", "l", "y", "s", "i", "s">>,
    <<"p", "a", "n", "d", "a", "s">>, <<"n", "u", "m", "p", "y">>,
    <<"t", "e", "n", "s", "o", "r", "f", "l", "o", "w">>,
    <<"p", "y", "t", "o", "r", "c", "h">>,
    <<"s", "c", "i", "k", "i", "t", "-", "l", "e", "a", "r", "n">>,
    <<"t", "a", "b", "l", "e", "a", "u">>,
    <<"p", "o", "w", "e", "r", " ", "b", "i">>,
    <<"e", "x", "c", "e", "l">>, <<"w", "o", "r", "d">>,
    <<"p", "o", "w", "e", "r", "p", "o", "i", "n", "t">>,
    <<"p", "r", "o", "j", "e", "c", "t", " ", "m", "a", "n", "a", "g", "e", "m", "e", "n", "t">>,
    <<"a", "g", "i", "l", "e">>, <<"s", "c", "r", "u", "m">>,
    <<"j", "i", "r", "a">>,
    <<"c", "o", "n", "f", "l", "u", "e", "n", "c", "e">>,
    <<"r", "e", "s", "t", " ", "a", "p", "i">>,
    <<"g", "r", "a", "p", "h", "q", "l">>,
    <<"m", "i", "c", "r", "o", "s", "e", "r", "v", "i", "c", "e", "s">> }

\* str.title(): a letter that follows no letter in upper case, every other
\* letter in lower case.
Title(word) ==
    [i \in DOMAIN word |->
        IF i = 1 \/ ~IsLetter(word[i - 1])
        THEN UpperChar(word[i]) ELSE LowerChar(word[i])]

\* app.py extract_skills before list(set(...)): the keywords found.
FoundSkills(text) ==
    { Title(k) : k \in { w \in common_skills :
                            \E i \in DOMAIN text : Contains(Lower(Spelled(text[i])), w) } }

\* list(set(...)): the elements of a set in some order.
Orders(S) ==
    { q \in [1..Cardinality(S) -> S] : \A i, j \in DOMAIN q : i # j => q[i] # q[j] }

education_terms ==
  {
    <<"b", "a", "c", "h", "e", "l", "o", "r">>,
    <<"m", "a", "s", "t", "e", "r">>, <<"p", "h", "d">>,
    <<"d", "o", "c", "t", "o", "r", "a", "t", "e">>, <<"m", "b", "a">>,
    <<"b", "s">>, <<"m", "s">>, <<"b", "a">>, <<"m", "a">>,
    <<"u", "n", "i", "v", "e", "r", "s", "i", "t", "y">>,
    <<"c", "o", "l", "l", "e", "g", "e">>,
    <<"i", "n", "s", "t", "i", "t", "u", "t", "e">>,
    <<"s", "c", "h", "o", "o", "l">>, <<"d", "e", "g", "r", "e", "e">>,
    <<"g", "r", "a", "d", "u", "a", "t", "e", "d">> }

\* app.py extract_education: the first five lines naming a term.
app_extract_education(text) ==
    LET Names(line) == \E w \in education_terms : Contains(Lower(Spelled(line)), w)
        lines == SelectSeq(text, Names)
    IN [i \in 1..(IF Len(lines) < 5 THEN Len(lines) ELSE 5) |-> Strip(lines[i])]

\* What pyresparser does: the library is missing (ImportError), it fails
\* with another exception, or it returns its own reading of the file, with
\* or without a name.
PyresOutcomes ==
    { [found |-> FALSE, why |-> "ImportError"],
      [found |-> FALSE, why |-> "Exception"],
      [found |-> TRUE, name |-> <<>>,
       email |-> <<"J", "@", "x", ".", "i", "o">>],
      [found |-> TRUE, name |-> <<"J", "a", "n", "e">>,
       email |-> <<"J", "@", "x", ".", "i", "o">>] }

\* try_pyresparser, lines 199-214.
PyresData(p) ==
    [ candidate_name |-> JStr(p.name),
      contact_info |-> [ location |-> JStr(EmptyStr),
                         phone_number |-> JStr(EmptyStr),
                         email_address |->
                             IF p.email # <<>> THEN JList(<<JStr(p.email)>>)
                             ELSE JList(<<>>),
                         personal_urls |-> JList(<<>>) ],
      job_title |-> JStr(EmptyStr),
      bio |-> JStr(EmptyStr),
      work_experience |-> JList(<<>>),
      skills |-> JList(<<>>),
      education |-> JList(<<>>),
      professional_development |-> JList(<<>>),
      other_info |-> JList(<<>>) ]

\* The str of a text: its lines joined by line breaks.
JoinLines(text) ==
    LET F[i \in 0..Len(text)] ==
            IF i = 0 THEN <<>>
            ELSE (IF i = 1 THEN <<>> ELSE F[i - 1] \o <<"\n">>) \o Spelled(text[i])
    IN F[Len(text)]

\* \b at position p of s: of the characters before and at p, exactly one
\* is a word character.
WordChars ==
    {LowerLetters[i] : i \in DOMAIN LowerLetters} \cup {Upper[i] : i \in DOMAIN Upper}
    \cup Digits \cup {"_"}
Boundary(s, p) ==
    ((p - 1) \in DOMAIN s /\ s[p - 1] \in WordChars)
        # (p \in DOMAIN s /\ s[p] \in WordChars)

\* The position after the longest run of characters of class C at p.
RECURSIVE RunEnd(_, _, _)
RunEnd(s, p, C) ==
    IF p <= Len(s) /\ s[p] \in C THEN RunEnd(s, p + 1, C) ELSE p

\* A keyword of a pattern at position p; its "." is any character but a
\* line break.
LiteralAt(s, p, keyword) ==
    /\ p + Len(keyword) - 1 <= Len(s)
    /\ \A i \in DOMAIN keyword :
          IF keyword[i] = "." THEN s[p + i - 1] # "\n"
          ELSE s[p + i - 1] = keyword[i]

\* title_patterns, lines 165-169: the alternatives of the group, and the
\* number of \s+[a-z]+ that follow it.
title_patterns ==
    << [ heads |-> { <<"s", "e", "n", "i", "o", "r">>,
                    <<"j", "u", "n", "i", "o", "r">>,
                    <<"l", "e", "a", "d">>,
                    <<"p", "r", "i", "n", "c", "i", "p", "a", "l">> },
         words |-> 2 ],
       [ heads |-> { <<"s", "o", "f", "t", "w", "a", "r", "e">>,
                    <<"w", "e", "b">>,
                    <<"f", "r", "o", "n", "t", "e", "n", "d">>,
                    <<"b", "a", "c", "k", "e", "n", "d">>,
                    <<"f", "u", "l", "l", ".", "s", "t", "a", "c", "k">>,
                    <<"d", "a", "t", "a">>,
                    <<"d", "e", "v", "o", "p", "s">>,
                    <<"c", "l", "o", "u", "d">> },
         words |-> 1 ],
       [ heads |-> { <<"e", "n", "g", "i", "n", "e", "e", "r">>,
                    <<"d", "e", "v", "e", "l", "o", "p", "e", "r">>,
                    <<"a", "r", "c", "h", "i", "t", "e", "c", "t">>,
                    <<"a", "n", "a", "l", "y", "s", "t">>,
                    <<"s", "c", "i", "e", "n", "t", "i", "s", "t">>,
                    <<"m", "a", "n", "a", "g", "e", "r">>,
                    <<"d", "i", "r", "e", "c", "t", "o", "r">> },
         words |-> 0 ] >>

\* A pattern at position p: where the match ends (0 when there is none)
\* and what its group holds.  No alternative is the start of another, and
\* a run of blanks or of letters is taken whole, since what follows it is
\* of another class.
TitleMatchAt(s, p, pattern) ==
    LET heads == {k \in pattern.heads : LiteralAt(s, p, k)}
        After(q) ==
            IF q = 0 THEN 0
            ELSE LET blanks == RunEnd(s, q, Whitespace)
                     letters == RunEnd(s, blanks, {LowerLetters[i] : i \in DOMAIN LowerLetters})
                 IN IF blanks = q \/ letters = blanks THEN 0 ELSE letters
    IN IF ~Boundary(s, p) \/ heads = {} THEN [end |-> 0, group |-> <<>>]
       ELSE LET k == CHOOSE k \in heads : TRUE
                q == p + Len(k)
                e == CASE pattern.words = 0 -> q
                       [] pattern.words = 1 -> After(q)
                       [] pattern.words = 2 -> After(After(q))
            IN [end |-> IF e # 0 /\ Boundary(s, e) THEN e ELSE 0,
                group |-> SubSeq(s, p, q - 1)]

\* The matches of a pattern in s from position p on, left to right and not
\* overlapping: for each its text and its group.
RECURSIVE TitleMatches(_, _, _)
TitleMatches(s, p, pattern) ==
    IF p > Len(s) THEN <<>>
    ELSE LET m == TitleMatchAt(s, p, pattern)
         IN IF m.end = 0 THEN TitleMatches(s, p + 1, pattern)
            ELSE <<[text |-> SubSeq(s, p, m.end - 1), group |-> m.group]>>
                 \o TitleMatches(s, m.end, pattern)

\* Lines 171-173: re.findall(pattern, text.lower()) for each pattern in
\* turn; every pattern has one group, so findall gives the groups.
job_titles(text) ==
    LET lowered == Lower(JoinLines(text))
        GroupsOf(i) == LET matches == TitleMatches(lowered, 1, title_patterns[i])
                      IN [n \in DOMAIN matches |-> matches[n].group]
    IN GroupsOf(1) \o GroupsOf(2) \o GroupsOf(3)

\* parse_resume_manual, lines 156-191.
parse_resume_manual(text, skills) ==
    LET emails == extract_email(text)
        phones == extract_phone(text)
        titles == job_titles(text)
    IN [ candidate_name |-> JStr(extract_name(text)),
         contact_info |-> [ location |-> JStr(EmptyStr),
                            phone_number |->
                                IF phones # <<>> THEN JStr(phones[1])
                                ELSE JStr(EmptyStr),
                            email_address |-> StrList(emails),
                            personal_urls |-> JList(<<>>) ],
         job_title |-> IF titles # <<>> THEN JStr(Title(titles[1]))
                       ELSE JStr(EmptyStr),
         bio |-> JStr(EmptyStr),
         work_experience |-> JList(<<>>),
         skills |-> StrList(skills),
         education |-> StrList(app_extract_education(text)),
         professional_development |-> JList(<<>>),
         other_info |-> JList(<<>>) ]

\* Mutant: what pyresparser returns is taken even without a name.
UsesPyresWhenFound(p) == p.found

\* Lines 245 and 259, "pyres_data and pyres_data.get('candidate_name')":
\* try_pyresparser returned a dict ({} after an exception, lines 215-220)
\* and its candidate_name is not empty.
UsesPyres(p) == p.found /\ Truthy(PyresData(p).candidate_name)

\* The str the extract_text_from_* functions return for a document: each
\* page of a PDF and each paragraph of a DOCX is followed by a line break
\* (lines 54 and 65), a text file is read as it is (line 74).  A document
\* of the model is one page.
extract_text(d) ==
    IF d.type = Pdf THEN JoinLines(d.text) \o <<"\n">>
    ELSE IF d.type = Docx
    THEN JoinLines([i \in DOMAIN d.text |-> d.text[i] \o <<"\n">>])
    ELSE JoinLines(d.text)

\* Lines 255-260: the parsing_metadata key added to the parsed fields.
WithMetadata(fields, d, method, seconds) ==
    fields @@ ("parsing_metadata" :>
                  [ parsing_time_seconds |-> seconds,
                    file_type |-> d.type,
                    text_length |-> Len(extract_text(d)),
                    parsing_method |-> method ])

\* What parse_resume shows and returns; pyres is what pyresparser did.
Rejected(why) == [status |-> "error", error |-> why]
ParsedBy(method, data, p) ==
    [status |-> "ok", method |-> method, data |-> data, pyres |-> p]

----------------------------------------------------------------------------
(* The two surfaces *)

\* ResumeManager.__init__ as called by __main__ (line 361): the record is
\* copied from the template, then get_resume_content reads the document or
\* raises ValueError for an extension it does not read; the exception ends
\* the program.
GetResumeContent ==
    /\ surface = "cli"
    /\ mainPc = "load"
    /\ output' = template
    /\ IF SupportedExtension(doc.ext)
       THEN /\ resume' = StripText(doc.text)
            /\ mainPc' = "start"
       ELSE /\ mainPc' = "rejected"
            /\ UNCHANGED resume
    /\ UNCHANGED <<started, joined, pc, tasks, stub, calls, attempts, writers,
                   others>>

\* __main__, lines 367-376: self.output is dumped as it is.
WriteOutput ==
    /\ mainPc = "returned"
    /\ written' = output
    /\ mainPc' = "written"
    /\ UNCHANGED <<resume, output, started, joined, pc, tasks, stub, calls,
                   attempts, writers, normVars, intakeVars, fnVars>>

\* app.py parse_resume.
ParseResume ==
    /\ surface = "app"
    /\ appOut = Nothing
    /\ IF ~SupportedType(doc.type)
       THEN appOut' = Rejected("unsupported")
       ELSE IF StripText(doc.text) = <<>>
       THEN appOut' = Rejected("no text")
       ELSE \E p \in PyresOutcomes, seconds \in 0..MaxSeconds :
              IF UsesPyres(p)
              THEN appOut' = ParsedBy("pyresparser",
                                      WithMetadata(PyresData(p), doc, "pyresparser", seconds),
                                      p)
              ELSE \E skills \in Orders(FoundSkills(doc.text)) :
                     appOut' = ParsedBy("manual",
                                        WithMetadata(parse_resume_manual(doc.text, skills),
                                                     doc, "manual", seconds),
                                        p)
    /\ UNCHANGED <<resume, output, mainPc, started, joined, pc, tasks, stub,
                   calls, attempts, writers, written, normVars, doc, surface,
                   fnVars>>

----------------------------------------------------------------------------
(* The Output Normalizer (utils.py).  sanitize_output starts from         *)
(* output_template.copy(), a shallow copy: the contact_info dict of the    *)
(* copy is the dict of the module-level template itself, so what is        *)
(* written into it is written into the template, and the contact_info of   *)
(* every record returned is that same dict.                                *)

ContactKeys == DOMAIN output_template.contact_info

\* The contact_info of a returned record when it is the template's dict.
Alias == [t |-> "alias"]

\* The record a returned value stands for, with the template as it is now.
Deref(val, tmpl) ==
    [k \in DOMAIN val |->
        IF val[k] = Alias THEN Dict(tmpl.contact_info) ELSE val[k]]

\* A record as ResumeManager holds it, as a dict.
RecordOf(out) ==
    [k \in DOMAIN out |-> IF k = "contact_info" THEN Dict(out[k]) ELSE out[k]]

\* Mutant: a list is wrapped like a scalar.
WrapListAlways(v) == JList(<<v>>)

\* sanitize_output, lines 265-269.
WrapList(v) ==
    IF v.t = "list" THEN v
    ELSE IF Truthy(v) THEN JList(<<v>>)
    ELSE JList(<<>>)

\* sanitize_output, lines 252-260, on the contact_info dict of the template.
CopyContact(ci, r) ==
    IF "contact_info" \in DOMAIN r /\ r["contact_info"].t = "dict"
    THEN LET given == r["contact_info"].d
         IN [ck \in ContactKeys |->
                IF ck \in DOMAIN given /\ Truthy(given[ck]) THEN given[ck]
                ELSE ci[ck]]
    ELSE ci

\* sanitize_output, lines 249-260, on the keys of the copy.
CopyFields(tmpl, r) ==
    [k \in TopKeys |->
        IF k \in DOMAIN r /\ r[k] # JNull
        THEN IF k = "contact_info" /\ r[k].t = "dict" THEN Alias ELSE r[k]
        ELSE IF k = "contact_info" THEN Alias ELSE tmpl[k]]

\* sanitize_output, lines 263-269.
WrapLists(val) ==
    [k \in DOMAIN val |->
        IF k \in {"skills", "professional_development", "other_info",
                   "work_output", "education"}
        THEN WrapList(val[k]) ELSE val[k]]

EmailKey == <<"e", "m", "a", "i", "l", "_", "a", "d", "d", "r", "e", "s", "s">>

\* validate_email_format, line 171: 'email_address' in contact_info holds
\* and the subscript of line 172 raises TypeError (a str or a list), or
\* the test itself raises TypeError (a number).
ValidateRaises(contact) ==
    CASE contact.t = "str"  -> Contains(contact.s, EmailKey)
      [] contact.t = "list" -> \E i \in DOMAIN contact.l : contact.l[i] = JStr(EmailKey)
      [] contact.t = "num"  -> TRUE
      [] OTHER -> FALSE

\* validate_email_format, lines 172-177, on the contact_info dict.
ValidateEmails(ci) ==
    LET emails == ci.email_address
    IN IF emails.t = "str" THEN [ci EXCEPT !.email_address = JList(<<emails>>)]
       ELSE IF emails.t # "list" THEN [ci EXCEPT !.email_address = JList(<<>>)]
       ELSE ci

\* sanitize_output(r) with the template as it is: whether it raises, the
\* record it returns and the template it leaves.
Sanitize(tmpl, r) ==
    LET val == WrapLists(CopyFields(tmpl, r))
        ci == CopyContact(tmpl.contact_info, r)
        aliased == val["contact_info"] = Alias
    IN [ raised |-> ~aliased /\ ValidateRaises(val["contact_info"]),
         val |-> val,
         template |-> [tmpl EXCEPT !.contact_info =
                          IF aliased THEN ValidateEmails(ci) ELSE ci] ]

\* The record of a run whose replies were complete, as process_file leaves
\* it.
ExtractedRecord ==
    RecordOf(BasicInfoDone(WriteSkills(output_template, SkillsFull.o),
                           BasicInfoFull.o, CHOOSE r \in Resumes : TRUE))

Address == JStr(<<"a", "@", "b", ".", "c", "o">>)

\* The records handed to sanitize_output: the one of a complete run, the
\* empty dict, records with null and bare values, and records whose
\* contact_info is no dict, lacks keys or holds an address that is no list.
Records ==
    { ExtractedRecord,
      <<>>,
      ("contact_info" :> JNull) @@ ("skills" :> JNull)
          @@ ("education" :> JStr(<<"B", "S", "c">>)),
      ("skills" :> JStr(EmptyStr)) @@ ("other_info" :> JNum(0)),
      ("contact_info" :> JStr(<<"n", "/", "a">>)),
      ("contact_info" :> JNum(5)),
      ("contact_info" :> Dict(("email_address" :> Address))),
      ("contact_info" :> Dict(("email_address" :> JNum(42))
                              @@ ("location" :> JStr(<<"L", "A">>)))) }

\* A call of sanitize_output.
Call(r, again) ==
    LET s == Sanitize(template, r)
    IN /\ arg' = r
       /\ result' = [raised |-> s.raised, val |-> s.val, again |-> again]
       /\ template' = IF s.raised THEN template ELSE s.template
       /\ sanitized' = sanitized + 1

\* sanitize_output on a record.
SanitizeOutput ==
    /\ sanitized < MaxSanitize
    /\ \E r \in Records : Call(r, FALSE)
    /\ UNCHANGED <<resume, output, mainPc, started, joined, pc, tasks, stub,
                   calls, attempts, writers, written, intakeVars, fnVars>>

\* sanitize_output on the record the latest call returned.
SanitizeAgain ==
    /\ sanitized < MaxSanitize
    /\ result # Nothing
    /\ ~result.raised
    /\ Call(Deref(result.val, template), TRUE)
    /\ UNCHANGED <<resume, output, mainPc, started, joined, pc, tasks, stub,
                   calls, attempts, writers, written, intakeVars, fnVars>>

\* save_output_to_file: sanitize_output, then the dump of what it returned.
SaveOutputToFile ==
    /\ sanitized < MaxSanitize
    /\ \E r \in Records :
         /\ Call(r, FALSE)
         /\ written' = IF Sanitize(template, r).raised THEN written
                       ELSE Deref(Sanitize(template, r).val,
                                  Sanitize(template, r).template)
    /\ UNCHANGED <<resume, output, mainPc, started, joined, pc, tasks, stub,
                   calls, attempts, writers, intakeVars, fnVars>>

\* ResumeManager.__init__, line 40: deepcopy(output_template).
NewRecord ==
    /\ output' = template
    /\ UNCHANGED <<resume, mainPc, started, joined, pc, tasks, stub, calls,
                   attempts, writers, others>>

----------------------------------------------------------------------------
(* Functions called on their own: the Structured Extraction Client         *)
(* (parser.py extract_pydantic) on the replies of the service.             *)

\* What process_file and its threads read and write.
runVars == <<resume, output, mainPc, started, joined, pc, tasks, stub, calls,
             attempts, writers>>

\* The latest call is a call of fn.
IsCall(fn) == call # Nothing /\ call.fn = fn

\* chat.completions.create with timeout=15 (line 103) gave no reply in time.
TimedOut == [kind |-> "error", timeout |-> TRUE]

\* The exception the try block of extract_pydantic (lines 95-134) ends
\* with, "none" when it reaches the return of line 134.  The call raises;
\* json.loads raises; a reply that is a JSON list has no items() (line
\* 123); 'data' in None raises TypeError (line 111), and so does
\* parsed_result['data'] on a JSON string that contains "data", while one
\* that does not has no items().  Inside an object nothing raises: the
\* try of lines 113-119 and 126-130 covers each item.
TryRaises(outcome) ==
    IF outcome.kind = "error"
    THEN (IF outcome = TimedOut THEN "APITimeoutError" ELSE "APIError")
    ELSE LET parsed == JsonLoads(outcome.content) IN
         IF parsed.raised THEN "JSONDecodeError"
         ELSE CASE parsed.val.t = "obj" -> "none"
                [] parsed.val.t = "list" -> "AttributeError"
                [] parsed.val.t = "str" ->
                     IF Contains(parsed.val.s, <<"d", "a", "t", "a">>)
                     THEN "TypeError" ELSE "AttributeError"
                [] OTHER -> "TypeError"

\* Mutant: the handler of line 136 catches json.JSONDecodeError only.
CaughtJsonOnly(exc) == exc = "JSONDecodeError"

\* Line 136, "except Exception": every exception class above is caught.
Caught(exc) ==
    exc \in {"APIError", "APITimeoutError", "JSONDecodeError", "AttributeError",
             "TypeError"}

\* extract_pydantic as its caller sees it: the pair (extracted_data,
\* seconds) of line 134 or of line 140, or the exception that escapes.
extract_pydantic(target_schema, outcome, seconds) ==
    LET exc == TryRaises(outcome)
    IN IF exc = "none"
       THEN [raised |-> FALSE, items |-> ExtractPydantic(target_schema, outcome),
             seconds |-> seconds]
       ELSE IF Caught(exc)
       THEN [raised |-> FALSE, items |-> <<>>, seconds |-> seconds]
       ELSE [raised |-> TRUE, exc |-> exc]

\* Items of a reply list: two that are an Education, one that is a
\* WorkExperience, one without its required field, one whose required field
\* is a list, and one that is not an object.
MastersItem ==
    JObj(<< KV("qualification", JStr(<<"M", "S", "c">>)), KV("year", JNull) >>)
WrongTypeItem ==
    JObj(<< KV("qualification", JList(<<>>)) >>)
ClientItems ==
    { EducationItem, MastersItem, WorkItem(<<"A">>), EducationItemNoQualification,
      WrongTypeItem, JStr(<<"B", "S", "c">>) }

\* The reply lists of the model: up to two items, and up to one.
ClientLists ==
    {<<>>} \cup { <<a>> : a \in ClientItems }
           \cup { <<a, b>> : a \in ClientItems, b \in ClientItems }
ShortLists == { l \in ClientLists : Len(l) <= 1 }

Note == JStr(<<"o", "k">>)

\* What the service does on the prompt of extract_pydantic: no reply, a
\* reply that is not JSON, JSON that is not an object, an object with a
\* "data" list, with one list under another key, with two lists, with
\* "data" that is not a list next to a list, with another list before the
\* "data" list, or without any list.
ClientReplies ==
    { Error, TimedOut, Ok(NotJson), Ok(Parsed(JNull)),
      Ok(Parsed(JStr(<<"d", "a", "t", "a">>))), Ok(Parsed(Note)),
      Ok(Parsed(JObj(EmptyObj))), Ok(Parsed(JObj(<< KV("note", Note) >>))) }
    \cup { Ok(Parsed(JList(l))) : l \in ShortLists }
    \cup { Ok(Parsed(JObj(<< KV("data", JList(l)) >>))) : l \in ClientLists }
    \cup { Ok(Parsed(JObj(<< KV("note", Note), KV("items", JList(l)) >>))) :
             l \in ClientLists }
    \cup { Ok(Parsed(JObj(<< KV("a", JList(l[1])), KV("note", Note),
                             KV("b", JList(l[2])) >>))) :
             l \in ShortLists \X ShortLists }
    \cup { Ok(Parsed(JObj(<< KV("data", Note), KV("b", JList(l)) >>))) :
             l \in ShortLists }
    \cup { Ok(Parsed(JObj(<< KV("b", JList(l[1])), KV("data", JList(l[2])) >>))) :
             l \in ShortLists \X ShortLists }

\* The calls of extract_pydantic of the model: a schema, and what the
\* service does.
ClientCalls ==
    { [fn |-> "extract_pydantic", target_schema |-> target_schema,
       outcome |-> outcome] :
        target_schema \in {WorkExperience, Education}, outcome \in ClientReplies }

\* One call of extract_pydantic; end - start is whatever the clock gives.
CallExtractPydantic ==
    /\ IsCall("extract_pydantic")
    /\ ret = Nothing
    /\ \E seconds \in 0..MaxSeconds :
         ret' = extract_pydantic(call.target_schema, call.outcome, seconds)
    /\ UNCHANGED <<runVars, written, normVars, intakeVars, call>>

----------------------------------------------------------------------------
(* utils.py extract_phone_numbers, called on its own.  Its content is a    *)
(* str: a sequence of characters.                                          *)

\* [-.\s] of phone_pattern.
Separators == {"-", ".", " ", "\n", "\t"}

\* An optional character of class C at position p: the position after it.
\* Every optional character of phone_pattern is followed by a digit or by
\* "(", so the match never goes on without a character it could take.
SkipOne(s, p, C) ==
    IF p >= 1 /\ p <= Len(s) /\ s[p] \in C THEN p + 1 ELSE p

\* \d{n} at position p: the position after it, 0 when it does not match.
DigitsAt(s, p, n) ==
    IF p >= 1 /\ \A i \in p..(p + n - 1) : i <= Len(s) /\ s[i] \in Digits
    THEN p + n ELSE 0

\* \(?\d{3}\)?[-.\s]?\d{3}[-.\s]?\d{4} at position p: the position after
\* it, 0 when it does not match.
LocalNumberEnd(s, p) ==
    LET area == DigitsAt(s, SkipOne(s, p, {"("}), 3)
        exchange == DigitsAt(s, SkipOne(s, SkipOne(s, area, {")"}), Separators), 3)
    IN IF p = 0 \/ area = 0 \/ exchange = 0 THEN 0
       ELSE DigitsAt(s, SkipOne(s, exchange, Separators), 4)

\* The group (\+?\d{1,3}[-.\s]?) with n digits at position p: the position
\* after it, 0 when it does not match.
PrefixEnd(s, p, n) ==
    LET digits == DigitsAt(s, SkipOne(s, p, {"+"}), n)
    IN IF digits = 0 THEN 0 ELSE SkipOne(s, digits, Separators)

\* phone_pattern at position p.  The group is greedy: three digits are
\* tried first, then two, then one, and the group is left out only when
\* the rest matches with none of them.  group is what the match object
\* holds for group 1, the empty string for a group that took no part.
MatchAt(s, p) ==
    LET Ends(n) == LocalNumberEnd(s, PrefixEnd(s, p, n))
        taken == {n \in 1..3 : Ends(n) # 0}
    IN IF taken # {}
       THEN LET n == CHOOSE n \in taken : \A k \in taken : k <= n
            IN [end |-> Ends(n), group |-> SubSeq(s, p, PrefixEnd(s, p, n) - 1)]
       ELSE [end |-> LocalNumberEnd(s, p), group |-> <<>>]

\* The matches of phone_pattern in s from position p on, left to right and
\* not overlapping: for each its text and its group 1.
RECURSIVE PhoneMatches(_, _)
PhoneMatches(s, p) ==
    IF p > Len(s) THEN <<>>
    ELSE LET m == MatchAt(s, p)
         IN IF m.end = 0 THEN PhoneMatches(s, p + 1)
            ELSE <<[text |-> SubSeq(s, p, m.end - 1), group |-> m.group]>>
                 \o PhoneMatches(s, m.end)

\* re.findall(phone_pattern, content), line 129: the pattern has one group,
\* so the list holds the group of each match, not its text.
Findall(s) ==
    LET matches == PhoneMatches(s, 1)
    IN [i \in DOMAIN matches |-> matches[i].group]

\* re.sub(r'[-.\s()]', '', phone).strip(), line 134.
Cleaned(phone) ==
    LET Kept(c) == c \notin Separators \cup {"(", ")"}
    IN Strip(SelectSeq(phone, Kept))

\* extract_phone_numbers, lines 129-138.
extract_phone_numbers(content) ==
    LET phones == Findall(content)
        LongEnough(cleaned) == Len(cleaned) >= 10
    IN SelectSeq([i \in DOMAIN phones |-> Cleaned(phones[i])], LongEnough)

\* The contents of the model: numbers in the usual spellings, alone and
\* inside a line, a number too short to be one, a run of digits, no text.
PhoneTexts ==
    { <<"5", "5", "5", "-", "1", "2", "3", "-", "4", "5", "6", "7">>,
      <<"+", "1", " ", "5", "5", "5", "-", "1", "2", "3", "-", "4", "5", "6", "7">>,
      <<"(", "5", "5", "5", ")", " ", "1", "2", "3", "-", "4", "5", "6", "7">>,
      <<"5", "5", "5", "1", "2", "3", "4", "5", "6", "7">>,
      <<"T", ":", " ", "5", "5", "5", ".", "1", "2", "3", ".", "4", "5", "6", "7", ",", " ", "5", "5", "5", " ", "9", "8", "7", " ", "6", "5", "4", "3">>,
      <<"+", "4", "4", "-", "5", "5", "5", "-", "1", "2", "3", "-", "4", "5", "6", "7", "\n", "5", "5", "5", "-", "1", "2", "3", "4">>,
      <<"1", "2", "3", "-", "4", "5", "6", "7">>,
      <<"1", "2", "3", "4", "5", "6", "7", "8", "9", "0", "1", "2", "3", "4">>,
      <<>> }

PhoneCalls ==
    { [fn |-> "extract_phone_numbers", content |-> content] : content \in PhoneTexts }

\* One call of extract_phone_numbers.
CallExtractPhoneNumbers ==
    /\ IsCall("extract_phone_numbers")
    /\ ret = Nothing
    /\ ret' = [raised |-> FALSE, val |-> extract_phone_numbers(call.content)]
    /\ UNCHANGED <<runVars, written, normVars, intakeVars, call>>

----------------------------------------------------------------------------
(* app.py parse_resume_manual, called on its own *)

\* The head of a resume: name, title, email address.
JaneDoe ==
    << <<"J", "a", "n", "e", " ", "A", ".", " ", "D", "o", "e">>,
       <<"S", "e", "n", "i", "o", "r", " ", "S", "o", "f", "t", "w", "a", "r", "e", " ", "E", "n", "g", "i", "n", "e", "e", "r">>,
       <<"j", "a", "n", "e", ".", "d", "o", "e", "@", "e", "x", "a", "m", "p", "l", "e", ".", "c", "o", "m">> >>

\* The texts of the model: resumes whose title has a seniority word, a
\* field word, a role word only, or a seniority word not followed by two
\* words, and one without a title.
ManualTexts ==
    { JaneDoe,
      << <<"A", "n", "n", " ", "L", "e", "e">>,
         <<"L", "e", "a", "d", " ", " ", "d", "a", "t", "a", " ", "s", "c", "i", "e", "n", "t", "i", "s", "t", " ", "a", "t", " ", "A", "c", "m", "e">>,
         <<"a", "@", "b", ".", "c", "o">> >>,
      << <<"B", "o", " ", "L", "i">>,
         <<"F", "u", "l", "l", "-", "S", "t", "a", "c", "k", " ", "D", "e", "v", "e", "l", "o", "p", "e", "r">>,
         <<"P", "y", "t", "h", "o", "n", ",", " ", "S", "Q", "L">> >>,
      << <<"R", "E", "S", "U", "M", "E">>,
         <<"C", "y", " ", "F", "o", "x", ",", " ", "A", "r", "c", "h", "i", "t", "e", "c", "t">> >>,
      << <<"P", "r", "i", "n", "c", "i", "p", "a", "l", " ", "E", "n", "g", "i", "n", "e", "e", "r">>,
         <<"D", "i", " ", "W", "u">> >>,
      << <<"E", "d", " ", "R", "o", "e">>,
         <<"e", "@", "d", ".", "i", "o">> >> }

ManualCalls ==
    { [fn |-> "parse_resume_manual", text |-> text] : text \in ManualTexts }

\* One call of parse_resume_manual; list(set(...)) of extract_skills gives
\* the skills in some order.
CallParseResumeManual ==
    /\ IsCall("parse_resume_manual")
    /\ ret = Nothing
    /\ \E skills \in Orders(FoundSkills(call.text)) :
         ret' = [raised |-> FALSE, val |-> parse_resume_manual(call.text, skills)]
    /\ UNCHANGED <<runVars, written, normVars, intakeVars, call>>

----------------------------------------------------------------------------
(* Specifications *)

\* The program as coded.  extract_pydantic never raises, so the except
\* blocks of extract_education and extract_work_experience are never
\* entered (NoStructuredFallback) and their steps are left out of Next.
Next ==
    \/ StartThread
    \/ JoinThread
    \/ ExtractBasicInfo
    \/ FallbackBasicName
    \/ FallbackBasicTitle
    \/ ExtractSkills
    \/ FallbackSkills
    \/ ExtractEducation
    \/ ExtractWorkExperience

Spec == Init /\ [][Next]_vars

\* The except blocks exercised too: the program as coded (stub = FALSE), or
\* with extract_pydantic replaced by a stub that raises, the way a unit
\* test of the handlers would (stub = TRUE).
InitHandlers ==
    /\ NothingWritten /\ NormalizerIdle /\ IntakeDone /\ NoCall
    /\ resume \in Resumes
    /\ output = output_template
    /\ mainPc = "start"
    /\ started = 0
    /\ joined = 0
    /\ pc = [g \in Groups |-> "idle"]
    /\ tasks = <<>>
    /\ stub \in BOOLEAN
    /\ calls = [g \in Groups |-> <<>>]
    /\ attempts = [g \in Groups |-> [primary |-> 0, fallback |-> 0]]
    /\ writers = [k \in TopKeys |-> {}]

NextHandlers ==
    \/ Next
    \/ FallbackEducation
    \/ FallbackExtractWorkExperience
    \/ \E i \in DOMAIN tasks : GetIntermediaryWorkExperience(i)
    \/ JoinDrillDowns

SpecHandlers == InitHandlers /\ [][NextHandlers]_vars

\* The two surfaces on a document: the command line of parser.py, from
\* reading the document to dumping the record, and parse_resume of app.py.
InitSurfaces ==
    /\ NothingWritten /\ NormalizerIdle /\ NoCall
    /\ doc \in Documents
    /\ surface \in {"cli", "app"}
    /\ appOut = Nothing
    /\ resume = <<>>
    /\ output = output_template
    /\ mainPc = "load"
    /\ started = 0
    /\ joined = 0
    /\ pc = [g \in Groups |-> "idle"]
    /\ tasks = <<>>
    /\ stub = FALSE
    /\ calls = [g \in Groups |-> <<>>]
    /\ attempts = [g \in Groups |-> [primary |-> 0, fallback |-> 0]]
    /\ writers = [k \in TopKeys |-> {}]

NextSurfaces ==
    \/ GetResumeContent
    \/ Next
    \/ WriteOutput
    \/ ParseResume

SpecSurfaces == InitSurfaces /\ [][NextSurfaces]_vars

\* The Output Normalizer called on record after record in one process,
\* new records being created in between.
NextNormalizer ==
    \/ SanitizeOutput
    \/ SanitizeAgain
    \/ SaveOutputToFile
    \/ NewRecord

SpecNormalizer == Init /\ [][NextNormalizer]_vars

\* The functions the claims name, each called on its own on one of the
\* inputs of the model.
InitFunctions ==
    /\ NothingWritten /\ NormalizerIdle /\ IntakeDone
    /\ resume \in Resumes
    /\ output = output_template
    /\ mainPc = "start"
    /\ started = 0
    /\ joined = 0
    /\ pc = [g \in Groups |-> "idle"]
    /\ tasks = <<>>
    /\ stub = FALSE
    /\ calls = [g \in Groups |-> <<>>]
    /\ attempts = [g \in Groups |-> [primary |-> 0, fallback |-> 0]]
    /\ writers = [k \in TopKeys |-> {}]
    /\ call \in ClientCalls \cup PhoneCalls \cup ManualCalls
    /\ ret = Nothing

NextFunctions ==
    \/ CallExtractPydantic
    \/ CallExtractPhoneNumbers
    \/ CallParseResumeManual

SpecFunctions == InitFunctions /\ [][NextFunctions]_vars

----------------------------------------------------------------------------
(* Vocabulary of the properties *)

\* The reply the Primary call of a field group received.
PrimaryReply(g) == calls[g][1]

CallFailed(reply) == reply.kind = "error"
NotValidJson(reply) == reply.kind = "ok" /\ reply.content.t = "text"
ValidObject(reply) ==
    /\ reply.kind = "ok"
    /\ reply.content.t = "json"
    /\ reply.content.j.t = "obj"

FallbackInvoked(g) == attempts[g].fallback >= 1

\* extract_pydantic is the one of the source (no stub).
AsCoded == ~stub

----------------------------------------------------------------------------
(* Properties *)

\* The except blocks of extract_education and extract_work_experience are
\* never entered by the program as coded.
NoStructuredFallback ==
    \A g \in {"education", "work"} : pc[g] \notin {"fallback", "drill"}

\* C1: for basic-info and skills, when the Primary service call failed
\* (error or timeout inside query_model), the group's Fallback has been
\* invoked by the time the group is Done.
C1_CallFailureInvokesFallback ==
    \A g \in {"basic", "skills"} :
        (pc[g] = "done" /\ CallFailed(PrimaryReply(g))) => FallbackInvoked(g)

\* C2: for education and work-experience, when the Primary call hard-failed
\* (service error, timeout, or a reply that is not valid JSON), the group's
\* Fallback has been invoked by the time the group is Done.
C2_HardFailureInvokesFallback ==
    \A g \in {"education", "work"} :
        (pc[g] = "done"
         /\ (CallFailed(PrimaryReply(g)) \/ NotValidJson(PrimaryReply(g))))
        => FallbackInvoked(g)

\* C3: for every field group, a Primary attempt whose reply is a valid JSON
\* object (so that nothing raises), whatever it yields, zero items and
\* empty values included, ends the group without any Fallback attempt.
C3_ValidReplyNeverFallsBack ==
    \A g \in Groups :
        (calls[g] # <<>> /\ ValidObject(PrimaryReply(g)))
        => (pc[g] = "done" /\ attempts[g].fallback = 0)

\* C3 witness: all four groups are Done on replies that parse and yield
\* nothing, the record still holds its empty values, no Fallback ran.
C3_Witness ==
    /\ mainPc = "returned"
    /\ PrimaryReply("basic") = Ok(Parsed(JObj(EmptyObj)))
    /\ PrimaryReply("skills") = Ok(Parsed(JObj(EmptyObj)))
    /\ PrimaryReply("education") = Ok(Parsed(JObj(<< KV("data", JList(<<>>)) >>)))
    /\ PrimaryReply("work") = Ok(Parsed(JObj(<< KV("data", JList(<<>>)) >>)))
    /\ output.education = JList(<<>>)
    /\ output.work_output = JList(<<>>)
    /\ output.skills = JList(<<>>)
    /\ output.candidate_name = JStr(EmptyStr)
    /\ \A g \in Groups : attempts[g] = [primary |-> 1, fallback |-> 0]

\* The entry a drill-down reply stands for, when it is valid JSON.
EntryOf(reply) == JsonLoads(QueryModel(reply, TRUE)).val

\* The drill-down threads whose service call returned valid JSON / failed.
Succeeded == {i \in DOMAIN tasks : ~CallFailed(tasks[i].reply) /\ Appends(tasks[i].reply)}

CompanyOf(entry) ==
    IF entry.t = "obj" /\ Has(entry.o, "company_name")
    THEN Get(entry.o, "company_name", JNull)
    ELSE JNull

\* C4: once the work-experience Fallback is Done, the list holds exactly
\* one entry for each company whose drill-down call succeeded and nothing
\* for a company whose call failed.
C4_FailedDrillDownOmitted ==
    (pc["work"] = "done" /\ FallbackInvoked("work"))
    => LET list == output.work_output.l
       IN /\ Len(list) = Cardinality(Succeeded)
          /\ \A i \in Succeeded :
                Cardinality({j \in DOMAIN list :
                                CompanyOf(list[j]) = JStr(tasks[i].company)}) = 1

\* C5: in the finalized record every work-experience entry has a
\* company_name that is a non-empty string.
C5_CompanyNameNonEmpty ==
    mainPc = "returned"
    => \A j \in DOMAIN output.work_output.l :
          LET name == CompanyOf(output.work_output.l[j])
          IN name.t = "str" /\ name.s # <<>>

\* What may change the position of a field group's thread: it never goes
\* back to Primary or Fallback once it has left it, and stays Done.
Rank ==
    [p \in {"idle", "primary", "fallback", "fallback_title", "drill", "done"} |->
        CASE p = "idle" -> 0 [] p = "primary" -> 1 [] p = "fallback" -> 2
          [] p = "fallback_title" -> 3 [] p = "drill" -> 3 [] p = "done" -> 4]

Forward == \A g \in Groups : pc'[g] = pc[g] \/ Rank[pc'[g]] > Rank[pc[g]]

\* C6: every field group makes at most one Primary and at most one
\* Fallback attempt, a Fallback attempt only after its Primary attempt, it
\* never re-enters a phase it has left, and it reaches Done: as long as a
\* group is not Done a step can be taken, and every step is forward.
C6_OneAttemptEach ==
    /\ [](\A g \in Groups :
            /\ attempts[g].primary <= 1
            /\ attempts[g].fallback <= 1
            /\ attempts[g].fallback = 1 => attempts[g].primary = 1)
    /\ [][Forward]_vars
    /\ []((\A g \in Groups : pc[g] = "done") \/ ENABLED NextHandlers)

\* C6 witness: a group Done after one Primary and one Fallback attempt,
\* another Done after its Primary attempt alone.
C6_Witness ==
    /\ pc["basic"] = "done" /\ attempts["basic"] = [primary |-> 1, fallback |-> 1]
    /\ pc["education"] = "done" /\ attempts["education"] = [primary |-> 1, fallback |-> 1]
    /\ pc["skills"] = "done" /\ attempts["skills"] = [primary |-> 1, fallback |-> 0]

\* C7: process_file has returned only when the four field-group threads
\* have ended, the work-experience group is Done only when every drill-down
\* thread has ended, and after the return nothing writes to the record.
C7_JoinBarrier ==
    /\ [](mainPc = "returned" => \A g \in Groups : pc[g] = "done")
    /\ [](pc["work"] = "done" => \A i \in DOMAIN tasks : tasks[i].pc = "done")
    /\ [][mainPc = "returned" => output' = output]_vars

\* C7 witness: process_file has returned after a work-experience Fallback
\* with two drill-down threads.
C7_Witness ==
    /\ mainPc = "returned"
    /\ Len(tasks) = 2
    /\ \A i \in DOMAIN tasks : tasks[i].pc = "done"

\* The record a field group alone produces from the replies it received.
ExpectedBasic ==
    LET c == calls["basic"]
    IN IF c = <<>> THEN output_template
       ELSE LET parsed == JsonLoads(QueryModel(c[1], TRUE))
            IN IF ~PrimaryRaises(parsed)
               THEN BasicInfoDone(output_template, parsed.val.o, resume)
               ELSE LET named == IF Len(c) >= 2
                                 THEN FallbackName(output_template, c[2])
                                 ELSE output_template
                    IN IF Len(c) >= 3 THEN FallbackTitle(named, c[3], resume)
                       ELSE named

ExpectedSkills ==
    LET c == calls["skills"]
    IN IF c = <<>> THEN output_template
       ELSE LET parsed == JsonLoads(QueryModel(c[1], TRUE))
            IN IF ~PrimaryRaises(parsed)
               THEN WriteSkills(output_template, parsed.val.o)
               ELSE IF Len(c) >= 2 THEN WriteFallbackSkills(output_template, c[2])
               ELSE output_template

ExpectedEducation ==
    LET c == calls["education"]
    IN IF c = <<>> THEN output_template
       ELSE IF c[1] # Raised
            THEN WriteEducation(output_template, ExtractPydantic(Education, c[1]))
       ELSE IF Len(c) >= 2 THEN WriteFallbackEducation(output_template, c[2])
       ELSE output_template

RECURSIVE DrillDowns(_, _)
DrillDowns(out, replies) ==
    IF replies = <<>> THEN out
    ELSE DrillDowns(DrillDown(out, Head(replies)), Tail(replies))

\* The replies the ended drill-down threads received, in thread order.
EndedReplies ==
    LET ended == SelectSeq(tasks, LAMBDA task : task.pc = "done")
    IN [i \in DOMAIN ended |-> ended[i].reply]

ExpectedWork ==
    LET c == calls["work"]
    IN IF c = <<>> THEN output_template
       ELSE IF c[1] # Raised
            THEN WriteWork(output_template, ExtractPydantic(WorkExperience, c[1]))
       ELSE DrillDowns(output_template, EndedReplies)

\* The same list, or the same entries in another order: the order of the
\* appends of the drill-down threads is the scheduler's, not the replies'.
SameEntries(a, b) ==
    \/ a = b
    \/ /\ a.t = "list" /\ b.t = "list" /\ Len(a.l) = Len(b.l)
       /\ \E f \in Permutations(DOMAIN a.l) : \A i \in DOMAIN a.l : a.l[i] = b.l[f[i]]

\* The keys of the record each field group is said to own.
Owned ==
    [g \in Groups |->
        CASE g = "basic" -> {"candidate_name", "job_title", "bio", "contact_info"}
          [] g = "skills" -> {"skills", "professional_development", "other_info"}
          [] g = "education" -> {"education"}
          [] g = "work" -> {"work_output"}]

Isolated ==
    /\ \A k \in Owned["basic"] : output[k] = ExpectedBasic[k]
    /\ \A k \in Owned["skills"] : output[k] = ExpectedSkills[k]
    /\ \A k \in Owned["education"] : output[k] = ExpectedEducation[k]
    /\ \A k \in Owned["work"] : SameEntries(output[k], ExpectedWork[k])

\* Every step of process_file and of its threads advances this count.
Measure ==
    started + joined
    + Rank[pc["basic"]] + Rank[pc["skills"]] + Rank[pc["education"]] + Rank[pc["work"]]
    + Cardinality({i \in DOMAIN tasks : tasks[i].pc = "done"})

\* C8: whatever the outcomes of the service calls, the run goes on until
\* process_file has returned with the four groups Done (no step is ever
\* missing and every step advances), and the keys of each group hold what
\* that group's own replies give, whatever the other groups received.
C8_FailuresStayLocal ==
    /\ []Isolated
    /\ []((mainPc = "returned" /\ \A g \in Groups : pc[g] = "done")
           \/ ENABLED NextHandlers)
    /\ [][Measure' > Measure]_vars

\* C8 witness: process_file has returned although the basic-info call
\* failed, the skills reply was no JSON and its Fallback call
\* failed, and the work-experience reply was no JSON, while education was
\* extracted.
C8_Witness ==
    /\ mainPc = "returned"
    /\ PrimaryReply("basic") = Error
    /\ calls["skills"] = <<Ok(NotJson), Error>>
    /\ AsCoded
    /\ output.education # JList(<<>>)
    /\ PrimaryReply("work") = Ok(NotJson)

\* C9: the appends of the drill-down threads to the shared list are never
\* lost: during and after the work-experience Fallback the list holds one
\* element for each thread that performed its append, each thread's entry
\* among them.
C9_NoLostAppend ==
    FallbackInvoked("work")
    => LET list == output.work_output.l
           Appended == {i \in DOMAIN tasks : tasks[i].appended}
       IN /\ Len(list) = Cardinality(Appended)
          /\ \A i \in Appended :
                \E j \in DOMAIN list : list[j] = EntryOf(tasks[i].reply)

\* C9 witness: the Fallback is Done, two drill-down threads appended.
C9_Witness ==
    /\ pc["work"] = "done"
    /\ Len(tasks) = 2
    /\ \A i \in DOMAIN tasks : tasks[i].appended
    /\ tasks[1].reply # tasks[2].reply
    /\ Len(output.work_output.l) = 2

\* C10: no top-level key of the record is written by a field group other
\* than its owner, on the Primary paths and on the Fallback paths, so no
\* key is written by two groups.
C10_DisjointKeys ==
    \A g \in Groups : \A k \in TopKeys : g \in writers[k] => k \in Owned[g]

\* C10 witness: process_file has returned and every key has been written,
\* education and work experience by their Fallback.
C10_Witness ==
    /\ mainPc = "returned"
    /\ \A g \in Groups : \A k \in Owned[g] : writers[k] = {g}
    /\ FallbackInvoked("education")
    /\ FallbackInvoked("work")

\* On the Primary paths education and work experience write their own key
\* too.
PrimaryPathsWrite ==
    (AsCoded /\ mainPc = "returned")
    => \A g \in {"education", "work"} : \A k \in Owned[g] : writers[k] = {g}

----------------------------------------------------------------------------
(* Contact identifiers and the skills Fallback *)

\* C11: once the basic-info group is Done, by whatever path, the email list
\* and personal_urls of the record are what extract_emails and
\* extract_github_and_linkedin_urls give on the resume text; they are
\* written last, so until then the two fields hold their empty defaults and
\* no reply of the service ever reaches them.
C11_ContactsFromText ==
    LET c == output.contact_info
    IN IF pc["basic"] = "done"
       THEN /\ c.email_address = StrList(extract_emails(resume))
            /\ c.personal_urls = StrList(extract_github_and_linkedin_urls(resume))
       ELSE /\ c.email_address = JList(<<>>)
            /\ c.personal_urls = JList(<<>>)

\* C11 witness: basic-info is Done after a reply that is JSON but no
\* object and a Fallback whose two calls both failed, and the record holds
\* the one email address (of two spellings) and the profile URL of the text.
C11_Witness ==
    /\ pc["basic"] = "done"
    /\ calls["basic"] = <<Ok(Parsed(JList(<<>>))), Error, Error>>
    /\ Len(output.contact_info.email_address.l) = 1
    /\ Len(output.contact_info.personal_urls.l) = 1

\* The text a text-mode call returned: the reply, or "" when it failed.
TextOf(reply) == IF reply.kind = "ok" THEN reply.content.s ELSE <<>>

\* s with every character c left out.
Without(s, c) == LET Keep(x) == x # c IN SelectSeq(s, Keep)

RECURSIVE Joined(_)
Joined(pieces) ==
    IF pieces = <<>> THEN <<>> ELSE pieces[1].s \o Joined(Tail(pieces))

\* C13: when the skills Primary reply is not valid JSON, the group is Done
\* only after its Fallback, and skills then is the list of the non-empty
\* trimmed comma-separated pieces of the Fallback reply in reply order:
\* every piece is a non-empty string without a comma and without blanks at
\* its ends, and the pieces put together are the reply without its commas
\* and blanks; "Go, SQL, ,C" gives ["Go", "SQL", "C"].
C13_SkillsFallbackPieces ==
    (pc["skills"] = "done" /\ NotValidJson(PrimaryReply("skills")))
    => /\ FallbackInvoked("skills")
       /\ LET reply == calls["skills"][2]
              pieces == output.skills.l
          IN /\ \A i \in DOMAIN pieces :
                   /\ pieces[i].t = "str"
                   /\ pieces[i].s # <<>>
                   /\ Head(pieces[i].s) \notin Whitespace
                   /\ pieces[i].s[Len(pieces[i].s)] \notin Whitespace
                   /\ \A j \in DOMAIN pieces[i].s : pieces[i].s[j] # ","
             /\ Joined(pieces) = Without(Without(TextOf(reply), ","), " ")
             /\ reply = Ok(Raw(<<"G", "o", ",", " ", "S", "Q", "L", ",", " ", ",", "C">>))
                => pieces = << JStr(<<"G", "o">>), JStr(<<"S", "Q", "L">>),
                               JStr(<<"C">>) >>

\* C13 witness: the Primary reply was "not json" and the Fallback reply
\* "Go, SQL, ,C" left three skills.
C13_Witness ==
    /\ pc["skills"] = "done"
    /\ calls["skills"] = <<Ok(NotJson),
                           Ok(Raw(<<"G", "o", ",", " ", "S", "Q", "L", ",", " ", ",", "C">>))>>
    /\ Len(output.skills.l) = 3

----------------------------------------------------------------------------
(* The two surfaces *)

\* No two entries of a list of str are equal when compared in lower case.
NoCaseDuplicates(l) ==
    \A i, j \in DOMAIN l : i < j => Lower(l[i].s) # Lower(l[j].s)

\* The email addresses of a text, each at its first occurrence only, in
\* text order.
FirstSeenEmails(text) ==
    LET found == SelectSeq(text, IsEmail)
        first == {i \in DOMAIN found :
                    \A j \in 1..(i - 1) : Lower(found[j]) # Lower(found[i])}
    IN [n \in 1..Cardinality(first) |->
           JStr(found[CHOOSE i \in first : Cardinality({j \in first : j <= i}) = n])]

\* C12: on both surfaces the email list of contact_info holds no two
\* entries equal in lower case and is the first occurrences of the
\* addresses of the text in text order: self.output once basic-info is Done
\* (extract_emails), and what parse_resume_manual returns.
C12_EmailsUniqueIgnoringCase ==
    /\ (surface = "cli" /\ pc["basic"] = "done")
       => LET l == output.contact_info.email_address.l
          IN NoCaseDuplicates(l) /\ l = FirstSeenEmails(resume)
    /\ (surface = "app" /\ appOut # Nothing /\ appOut.status = "ok"
        /\ appOut.method = "manual")
       => LET l == appOut.data.contact_info.email_address.l
          IN NoCaseDuplicates(l) /\ l = FirstSeenEmails(doc.text)

ListFields ==
    {"skills", "education", "work_output", "professional_development", "other_info"}

\* C14: on the command line sanitize_output has run exactly once when the
\* record is dumped, and in the dumped record every list-typed field is a
\* list.
C14_NormalizedOnceBeforeDump ==
    mainPc = "written"
    => /\ sanitized = 1
       /\ \A f \in ListFields : written[f].t = "list"
       /\ written.contact_info.email_address.t = "list"

\* The surface reads the document: its extension on the command line, its
\* declared content type in the application.
Readable ==
    IF surface = "cli" THEN doc.ext \in {".pdf", ".docx", ".doc"}
    ELSE doc.type \in {Pdf, Docx, Plain}

\* No field-group thread has been started and no call has been made.
NothingStarted ==
    /\ started = 0
    /\ \A g \in Groups :
          /\ pc[g] = "idle"
          /\ calls[g] = <<>>
          /\ attempts[g] = [primary |-> 0, fallback |-> 0]

\* C19: for a document the surface reads and whose text is empty once
\* trimmed, no field-group thread is ever started, no service call and no
\* Fallback is ever made, and the application returns nothing but its
\* error.
C19_EmptyTextAborts ==
    (Readable /\ StripText(doc.text) = <<>>)
    => /\ NothingStarted
       /\ appOut \in {Nothing, Rejected("no text")}

----------------------------------------------------------------------------
(* The Output Normalizer *)

\* The record the latest sanitize_output call returned.
Returned == Deref(result.val, template)

\* C15: sanitize_output is idempotent: called on a record it has returned,
\* it returns (and does not raise) a record equal to its argument.
C15_Idempotent ==
    (result # Nothing /\ result.again)
    => (~result.raised /\ Returned = arg)

\* C15 witness: sanitize_output was called again on what it returned for
\* the record of a complete run, whose bare other_info it had wrapped.
C15_Witness ==
    /\ result # Nothing
    /\ result.again
    /\ arg["other_info"] = JList(<<JStr(<<"c", "h", "e", "s", "s">>)>>)
    /\ arg["contact_info"].d.location = JStr(<<"N", "Y">>)
    /\ Returned["other_info"] = arg["other_info"]

\* What a list-typed field given as v has to become.
AsList(v) ==
    IF v = JNull THEN JList(<<>>)
    ELSE IF v.t = "list" THEN v
    ELSE JList(<<v>>)

\* C16: whatever the record, sanitize_output returns a record in which the
\* five list-typed fields and contact_info.email_address are lists: a list
\* is kept, a bare value becomes the list of that one value, null becomes
\* the empty list.
C16_ListFieldsAreLists ==
    result # Nothing
    => /\ ~result.raised
       /\ \A f \in ListFields :
             /\ Returned[f].t = "list"
             /\ f \in DOMAIN arg => Returned[f] = AsList(arg[f])
       /\ Returned["contact_info"].t = "dict"
       /\ Returned["contact_info"].d.email_address.t = "list"
       /\ ("contact_info" \in DOMAIN arg /\ arg["contact_info"].t = "dict"
           /\ "email_address" \in DOMAIN arg["contact_info"].d)
          => Returned["contact_info"].d.email_address
                = AsList(arg["contact_info"].d.email_address)

\* The record gives a value for a key of the contact block.
Given(ck) ==
    /\ "contact_info" \in DOMAIN arg
    /\ arg["contact_info"].t = "dict"
    /\ ck \in DOMAIN arg["contact_info"].d

\* C17: whatever the record, its contact_info missing, null, no dict or
\* short of keys included, sanitize_output returns a record whose
\* contact_info is a dict with the four keys, a key the record does not
\* give holding the empty string or the empty list.
C17_ContactBlockComplete ==
    result # Nothing
    => /\ ~result.raised
       /\ Returned["contact_info"].t = "dict"
       /\ DOMAIN Returned["contact_info"].d = ContactKeys
       /\ \A ck \in ContactKeys :
             ~Given(ck) => Returned["contact_info"].d[ck]
                              = output_template.contact_info[ck]

\* C18: the module-level template keeps its empty values whatever has been
\* sanitized or saved, so a new record starts empty and what
\* sanitize_output returns is what it returns with the template as
\* defined, whatever was processed before.
C18_TemplateStaysEmpty ==
    /\ template = output_template
    /\ output = output_template
    /\ (result # Nothing /\ ~result.raised)
       => Returned = Deref(Sanitize(output_template, arg).val,
                           Sanitize(output_template, arg).template)

----------------------------------------------------------------------------
(* The Structured Extraction Client called on its own *)

\* extract_pydantic has been called and has ended.
ClientEnded == IsCall("extract_pydantic") /\ ret # Nothing

\* The reply of the call is a JSON object.
ObjectReply ==
    /\ call.outcome.kind = "ok"
    /\ call.outcome.content.t = "json"
    /\ call.outcome.content.j.t = "obj"

\* C23: extract_pydantic never raises to its caller, and when the service
\* fails or times out, or its reply is no JSON or JSON that is no object,
\* it returns the empty item sequence together with the elapsed time.
C23_ClientNeverRaises ==
    ClientEnded
    => /\ ~ret.raised
       /\ ret.seconds \in 0..MaxSeconds
       /\ ~ObjectReply => ret.items = <<>>

\* C23 witness: the reply was a JSON list holding a valid item, and the
\* call returned no item; another call timed out and returned likewise.
C23_Witness ==
    /\ ClientEnded
    /\ call.target_schema = Education
    /\ call.outcome \in {Ok(Parsed(JList(<<EducationItem>>))), TimedOut}
    /\ ret.items = <<>>
    /\ ~ret.raised

\* The list-typed top-level values of an object reply, in key order.
ReplyLists ==
    LET IsList(kv) == kv.v.t = "list"
        lists == SelectSeq(call.outcome.content.j.o, IsList)
    IN [i \in DOMAIN lists |-> lists[i].v.l]

\* The reply has a list under "data".
HasDataList ==
    /\ ObjectReply
    /\ Has(call.outcome.content.j.o, "data")
    /\ Get(call.outcome.content.j.o, "data", JNull).t = "list"

\* The items of a list that are valid for the schema of the call, as the
\* dicts of their model objects, in the order of the list.
Validated(items) ==
    LET Valid(item) == Validates(call.target_schema, item)
        valid == SelectSeq(items, Valid)
    IN [i \in DOMAIN valid |-> ModelDict(call.target_schema, valid[i])]

\* C24: the items of the reply list (the "data" list, or the only list of
\* the reply) are validated one by one: the call returns exactly those that
\* validate, in their order, whatever their siblings are.
C24_ItemsValidatedIndependently ==
    ClientEnded
    => /\ HasDataList
          => /\ ~ret.raised
             /\ ret.items = Validated(Get(call.outcome.content.j.o, "data", JNull).l)
       /\ (ObjectReply /\ ~HasDataList /\ Len(ReplyLists) = 1)
          => /\ ~ret.raised
             /\ ret.items = Validated(ReplyLists[1])

\* C24 witness: the "data" list held an item without its required field and
\* a valid one after it, and the valid one alone was returned.
C24_Witness ==
    /\ ClientEnded
    /\ call.target_schema = Education
    /\ call.outcome = Ok(Parsed(JObj(<< KV("data",
                          JList(<<EducationItemNoQualification, EducationItem>>)) >>)))
    /\ ret.items = <<ModelDict(Education, EducationItem)>>

\* C25: an object reply without a "data" list gives the valid items of its
\* first list-typed value only, and no item when it has no list.
C25_FirstListOnly ==
    (ClientEnded /\ ObjectReply /\ ~HasDataList)
    => /\ ~ret.raised
       /\ ret.items = IF ReplyLists = <<>> THEN <<>> ELSE Validated(ReplyLists[1])

----------------------------------------------------------------------------
(* extract_phone_numbers called on its own *)

\* The texts of the phone numbers in the content: the matches of the
\* pattern, country code included.
PhoneNumbersIn(content) ==
    LET matches == PhoneMatches(content, 1)
    IN [i \in DOMAIN matches |-> matches[i].text]

\* C27: extract_phone_numbers returns, for every match of the pattern in
\* the content, the whole number with its separators stripped, and leaves
\* out only those shorter than 10 characters.
C27_WholeNumbersReturned ==
    (IsCall("extract_phone_numbers") /\ ret # Nothing)
    => LET numbers == PhoneNumbersIn(call.content)
           LongEnough(cleaned) == Len(cleaned) >= 10
       IN /\ ~ret.raised
          /\ ret.val = SelectSeq([i \in DOMAIN numbers |-> Cleaned(numbers[i])],
                                 LongEnough)

----------------------------------------------------------------------------
(* parse_resume_manual called on its own *)

\* The phrases of the text that match the seniority pattern (a seniority
\* word and the two words after it), as they stand in the lowered text.
SeniorityPhrases(text) ==
    LET matches == TitleMatches(Lower(JoinLines(text)), 1, title_patterns[1])
    IN [i \in DOMAIN matches |-> matches[i].text]

\* C22: on the text "Jane A. Doe", "Senior Software Engineer",
\* "jane.doe@example.com" parse_resume_manual gives that name, that one
\* email address and a job title that includes "Software Engineer"; on any
\* text with a match of the seniority pattern the job title is the whole
\* first matched phrase in title case.
C22_JobTitleWholePhrase ==
    (IsCall("parse_resume_manual") /\ ret # Nothing)
    => /\ ~ret.raised
       /\ call.text = JaneDoe
          => /\ ret.val.candidate_name = JStr(JaneDoe[1])
             /\ ret.val.contact_info.email_address = JList(<<JStr(JaneDoe[3])>>)
             /\ Contains(ret.val.job_title.s,
                         <<"S", "o", "f", "t", "w", "a", "r", "e", " ", "E", "n", "g", "i", "n", "e", "e", "r">>)
       /\ SeniorityPhrases(call.text) # <<>>
          => ret.val.job_title = JStr(Title(SeniorityPhrases(call.text)[1]))

----------------------------------------------------------------------------
(* The interactive surface against the command line *)

\* parse_resume has returned a parsed record.
AppParsed == surface = "app" /\ appOut # Nothing /\ appOut.status = "ok"

\* C21: the record of the interactive surface has the shape of the record
\* of the command line (ResumeManager.output, whose keys are those of
\* output_template from construction on): the same top-level keys and the
\* same keys of contact_info.
C21_SameShape ==
    /\ DOMAIN output = DOMAIN output_template
    /\ DOMAIN output.contact_info = DOMAIN output_template.contact_info
    /\ AppParsed
       => /\ DOMAIN appOut.data = DOMAIN output
          /\ DOMAIN appOut.data.contact_info = DOMAIN output.contact_info

\* The parsed fields of the record parse_resume returned.
FieldsOf(data) == [k \in DOMAIN data \ {"parsing_metadata"} |-> data[k]]

\* C26: parse_resume on a document it reads, with text, always returns a
\* record, whatever pyresparser does; the fields are those of
\* parse_resume_manual exactly when pyresparser is missing, fails or gives
\* no name, and those of pyresparser otherwise; parsing_method says which,
\* and text_length is the length of the extracted text.
C26_ManualWhenPrimaryFails ==
    (surface = "app" /\ appOut # Nothing /\ doc.type \in {Pdf, Docx, Plain}
     /\ StripText(doc.text) # <<>>)
    => /\ appOut.status = "ok"
       /\ LET p == appOut.pyres
              meta == appOut.data["parsing_metadata"]
              named == p.found /\ p.name # <<>>
              manual == \E skills \in Orders(FoundSkills(doc.text)) :
                           FieldsOf(appOut.data) = parse_resume_manual(doc.text, skills)
          IN /\ manual <=> ~named
             /\ named => FieldsOf(appOut.data) = PyresData(p)
             /\ meta.parsing_method = (IF named THEN "pyresparser" ELSE "manual")
             /\ meta.text_length
                  = Len(JoinLines(doc.text)) + (IF doc.type = Pdf THEN 1 ELSE 0)

\* C26 witness: pyresparser failed, or read the file without finding a
\* name, and the record returned is the manual one.
C26_Witness ==
    /\ AppParsed
    /\ \/ ~appOut.pyres.found /\ appOut.pyres.why = "Exception"
       \/ appOut.pyres.found /\ appOut.pyres.name = <<>>
    /\ appOut.data["parsing_metadata"].parsing_method = "manual"
    /\ appOut.data["parsing_metadata"].text_length > 0
    /\ appOut.data.contact_info.email_address.l # <<>>

====
